---- MODULE Spec2Model ----
(***************************************************************************)
(* A model of lycuid/ruson: the character cursor (src/src/lexer.rs), the   *)
(* recursive-descent JSON value parser and the parser of query properties  *)
(* (src/src/json/parser.rs), the canonical rendering of a value and the    *)
(* application of a query to a value (src/src/json/token.rs).              *)
(*                                                                         *)
(* A text is a sequence of one-character strings.  The cursor is a         *)
(* 0-based offset into it, as in the source: the character at the cursor   *)
(* is stack[cursor + 1].                                                   *)
(*                                                                         *)
(* Number(f32) is modelled as an exact decimal m * 10^e (plus the          *)
(* infinities and the flush to zero of the f32 range); the rounding of     *)
(* f32 arithmetic inside that range is not modelled.                       *)
(***************************************************************************)
EXTENDS Integers, Sequences, FiniteSets, TLC

VARIABLES stack, cursor, ret, overflow_checks, rendered_from, query, eval, cli

vars == <<stack, cursor, ret, overflow_checks, rendered_from, query, eval, cli>>

-----------------------------------------------------------------------------
(* Characters *)

Quote == "\""
Backslash == "\\"
\* One character outside ASCII, two bytes long in UTF-8 (String::len counts
\* bytes, the cursor counts chars).
EAcute == "e'"

DigitChars == {"0", "1", "2", "3", "4", "5", "6", "7", "8", "9"}

\* char::is_digit(10)
IsDigit(ch) == ch \in DigitChars

DigitVal(ch) ==
    CASE ch = "0" -> 0 [] ch = "1" -> 1 [] ch = "2" -> 2 [] ch = "3" -> 3
      [] ch = "4" -> 4 [] ch = "5" -> 5 [] ch = "6" -> 6 [] ch = "7" -> 7
      [] ch = "8" -> 8 [] ch = "9" -> 9

\* char::is_whitespace, on the characters the model uses
WhitespaceChars == {" ", "\t", "\n", "\r"}
IsWhitespace(ch) == ch \in WhitespaceChars

\* char::len_utf8
LenUtf8(ch) == IF ch = EAcute THEN 2 ELSE 1

RECURSIVE ByteLen(_)
\* String::len: the length in bytes
ByteLen(s) == IF s = <<>> THEN 0 ELSE LenUtf8(Head(s)) + ByteLen(Tail(s))

\* "abc" as the text <<"a", "b", "c">>, for the literals of the source
Null4 == <<"n", "u", "l", "l">>
True4 == <<"t", "r", "u", "e">>
False5 == <<"f", "a", "l", "s", "e">>

Min(S) == CHOOSE x \in S : \A y \in S : x <= y

-----------------------------------------------------------------------------
(* Lexer (src/src/lexer.rs).  Every operation returns a record            *)
(* [st, val, cur]: st is "some", "none" or "panic", cur the cursor after. *)

Some(v, c) == [st |-> "some", val |-> v, cur |-> c]
None(c) == [st |-> "none", val |-> <<>>, cur |-> c]
LexPanic(c) == [st |-> "panic", val |-> <<>>, cur |-> c]

\* Lexer::peek_at: "" stands for Option::None
PeekAt(s, c) == IF c >= 0 /\ c < Len(s) THEN s[c + 1] ELSE ""

\* Lexer::peek
Peek(s, c) == PeekAt(s, c)

\* The slice stack[cursor..] exists only for cursor <= len; beyond it the
\* index panics in every build.
SliceInRange(s, c) == c <= Len(s)

\* Lexer::consume_while for a predicate on one character: the maximal run
RunEnd(s, c, chars) ==
    Min({j \in c..Len(s) : j = Len(s) \/ s[j + 1] \notin chars})

ConsumeWhile(s, c, chars) ==
    IF ~SliceInRange(s, c) THEN LexPanic(c)
    ELSE LET j == RunEnd(s, c, chars) IN Some(SubSeq(s, c + 1, j), j)

\* A consume_byte that steps over a character that is not x, for comparison
ConsumeByteAnyway(s, c, x) ==
    IF Peek(s, c) = x THEN Some(x, c + 1)
    ELSE IF Peek(s, c) # "" THEN None(c + 1) ELSE None(c)

\* Lexer::consume_byte
ConsumeByte(s, c, x) ==
    IF Peek(s, c) = x THEN Some(x, c + 1) ELSE None(c)

\* Lexer::consume_string: a character of ys is compared only where the
\* stack still has one; the cursor moves by the whole of ys on success.
ConsumeString(s, c, ys) ==
    IF \A k \in 1..Len(ys) : (c + k - 1 < Len(s)) => s[c + k] = ys[k]
    THEN Some(ys, c + Len(ys))
    ELSE None(c)

RECURSIVE StripZeros(_)
\* The digit run without its leading zeros: the decimal digits of the u32
StripZeros(d) ==
    IF d # <<>> /\ Head(d) = "0" THEN StripZeros(Tail(d)) ELSE d

RECURSIVE DecVal(_)
\* The value of a digit run (of at most 2^31 - 1, TLC's largest integer)
DecVal(d) ==
    IF d = <<>> THEN 0 ELSE DecVal(SubSeq(d, 1, Len(d) - 1)) * 10 + DigitVal(d[Len(d)])

RECURSIVE DigitsLeq(_, _)
\* a <= b for digit runs of one length
DigitsLeq(a, b) ==
    IF a = <<>> THEN TRUE
    ELSE IF DigitVal(Head(a)) # DigitVal(Head(b))
         THEN DigitVal(Head(a)) < DigitVal(Head(b))
         ELSE DigitsLeq(Tail(a), Tail(b))

U32MaxDigits == <<"4", "2", "9", "4", "9", "6", "7", "2", "9", "5">>
I32MaxDigits == <<"2", "1", "4", "7", "4", "8", "3", "6", "4", "7">>
I32Min == (-2147483647) - 1

\* str::parse::<u32> of a digit run: an empty run and a value above
\* u32::MAX are errors.
FitsU32(d) ==
    LET sig == StripZeros(d) IN
    /\ d # <<>>
    /\ \/ Len(sig) < Len(U32MaxDigits)
       \/ Len(sig) = Len(U32MaxDigits) /\ DigitsLeq(sig, U32MaxDigits)

\* `n as i32` of the u32 with decimal digits sig: values from 2^31 wrap to
\* n - 2^32 (computed in two halves, within TLC's integers).
AsI32(sig) ==
    IF Len(sig) < Len(I32MaxDigits) \/ DigitsLeq(sig, I32MaxDigits)
    THEN DecVal(sig)
    ELSE (DecVal(SubSeq(sig, 1, 5)) - 42948) * 100000
         + (DecVal(SubSeq(sig, 6, 10)) - 167296)

\* consume_uint, `.parse().ok()` of the digit run: val is the u32 in
\* decimal digits.
UintOfRun(run) ==
    IF run.st = "panic" THEN run
    ELSE IF FitsU32(run.val) THEN Some(StripZeros(run.val), run.cur)
    ELSE None(run.cur)

\* Lexer::consume_uint: the cursor has moved past the digit run even when
\* the run does not parse.
ConsumeUint(s, c) == UintOfRun(ConsumeWhile(s, c, DigitChars))

\* consume_int, `n as i32 * mul`: i32::MIN * -1 overflows, a panic with
\* overflow checks and i32::MIN without.
IntOfUint(negative, u) ==
    IF u.st # "some" THEN u
    ELSE IF AsI32(u.val) = I32Min /\ negative
    THEN IF overflow_checks THEN LexPanic(u.cur) ELSE Some(I32Min, u.cur)
    ELSE Some(IF negative THEN -AsI32(u.val) ELSE AsI32(u.val), u.cur)

\* consume_int, after consume_byte('-')
IntOfSign(s, sign) == IntOfUint(sign.st = "some", ConsumeUint(s, sign.cur))

\* Lexer::consume_int.  A '-' that was consumed stays consumed when no
\* number follows.
ConsumeInt(s, c) == IntOfSign(s, ConsumeByte(s, c, "-"))

-----------------------------------------------------------------------------
(* Numbers: the decimal m * 10^e with m not a multiple of 10 (0 is 0e0),  *)
(* or an infinity (inf = 1 or -1).                                         *)

RECURSIVE Norm(_, _)
Norm(m, e) ==
    IF m = 0 THEN [m |-> 0, e |-> 0, inf |-> 0]
    ELSE IF m % 10 = 0 THEN Norm(m \div 10, e + 1)
    ELSE [m |-> m, e |-> e, inf |-> 0]

Abs(x) == IF x < 0 THEN -x ELSE x

RECURSIVE NDigits(_)
\* ndigits!: the number of decimal digits of a number > 0, and 0 otherwise
NDigits(n) == IF n > 0 THEN 1 + NDigits(n \div 10) ELSE 0

RECURSIVE Pow10(_)
Pow10(k) == IF k <= 0 THEN 1 ELSE 10 * Pow10(k - 1)

\* The f32 range: a magnitude above f32::MAX (about 3.4028235e38) is an
\* infinity, one below half the least subnormal (about 7e-46) is zero.
F32(d) ==
    IF d.m = 0 \/ d.inf # 0 THEN d
    ELSE LET nd == NDigits(Abs(d.m))
             top == nd + d.e - 1
             lead == IF nd <= 9 THEN Abs(d.m) * Pow10(9 - nd) ELSE Abs(d.m) \div 10
         IN  IF top > 38 \/ (top = 38 /\ lead >= 340282357)
             THEN [m |-> 0, e |-> 0, inf |-> IF d.m < 0 THEN -1 ELSE 1]
             ELSE IF top < -46 \/ (top = -46 /\ lead <= 700649232)
             THEN [m |-> 0, e |-> 0, inf |-> 0]
             ELSE d

\* `n as f32`
IntAsF32(n) == Norm(n, 0)

\* f + decimal or f - decimal, for the integer f and
\* decimal = number / 10^digits
AddDecimal(f, number, digits, negate) ==
    Norm(f * Pow10(digits) + (IF negate THEN -number ELSE number), -digits)

\* format!("{}e{}", f, exp).parse::<f32>(): f * 10^exp.  An exponent beyond
\* +-400 gives what +-400 gives, an infinity or zero.
WithExponent(d, exp) ==
    LET x == IF exp > 400 THEN 400 ELSE IF exp < -400 THEN -400 ELSE exp IN
    IF d.m = 0 THEN d ELSE F32([m |-> d.m, e |-> d.e + x, inf |-> 0])

-----------------------------------------------------------------------------
(* Values (src/src/json/token.rs, enum JsonToken) *)

NoValue == [t |-> "None"]
JNull == [t |-> "Null"]
JBoolean(b) == [t |-> "Boolean", v |-> b]
JNumber(d) == [t |-> "Number", v |-> d]
JQString(str) == [t |-> "QString", v |-> str]
JArray(a) == [t |-> "Array", v |-> a]
\* The HashMap is a function from its keys to their values.
JObject(h) == [t |-> "Object", v |-> h]

EmptyMap == [k \in {} |-> NoValue]
ContainsKey(h, k) == k \in DOMAIN h
\* HashMap::insert
Insert(h, k, v) == [x \in (DOMAIN h) \cup {k} |-> IF x = k THEN v ELSE h[x]]

-----------------------------------------------------------------------------
(* JsonParser (src/src/json/parser.rs).  A production returns             *)
(* [st, val, kind, cur]: st = "ok" with the value, st = "err" with the    *)
(* error kind, or st = "panic"; cur is the cursor it leaves, which for an  *)
(* error is the offset the error carries (JsonParser::error reads the      *)
(* cursor when the error is made).  A usize that wrapped below zero is     *)
(* kept as the negative integer it is congruent to modulo 2^64.            *)

SyntaxError == "SyntaxError"
DuplicateKeyError == "DuplicateKeyError"
TrailingCommaError == "TrailingCommaError"

Ok(v, c) == [st |-> "ok", val |-> v, kind |-> "", cur |-> c]
Err(k, c) == [st |-> "err", val |-> NoValue, kind |-> k, cur |-> c]
Panic(c) == [st |-> "panic", val |-> NoValue, kind |-> "", cur |-> c]

\* JsonParser::trim_front
TrimFront(s, c) == ConsumeWhile(s, c, WhitespaceChars)

RECURSIVE BackOverWhitespace(_, _)
BackOverWhitespace(s, c) ==
    IF Peek(s, c) # "" /\ IsWhitespace(Peek(s, c)) /\ c > 0
    THEN BackOverWhitespace(s, c - 1)
    ELSE c

\* JsonParser::untrim_front: `cursor -= 1`, then back over whitespace
UntrimFront(s, c) ==
    IF c = 0 /\ overflow_checks THEN LexPanic(c)
    ELSE Some(<<>>, BackOverWhitespace(s, c - 1))

\* JsonParser::parse_byte
ParseByte(s, c, x) ==
    LET b == ConsumeByte(s, c, x) IN
    IF b.st = "some" THEN Ok(NoValue, b.cur) ELSE Err(SyntaxError, c)

\* `.and(Ok(value))` of the result of parse_byte
AndOk(byte, value) == IF byte.st = "ok" THEN Ok(value, byte.cur) ELSE byte

\* JsonParser::parse_null
ParseNull(s, c) ==
    LET l == ConsumeString(s, c, Null4) IN
    IF l.st = "some" THEN Ok(JNull, l.cur) ELSE Err(SyntaxError, l.cur)

\* JsonParser::parse_boolean
ParseBoolean(s, c) ==
    LET t == ConsumeString(s, c, True4)
        f == ConsumeString(s, c, False5)
    IN  IF t.st = "some" THEN Ok(JBoolean(TRUE), t.cur)
        ELSE IF f.st = "some" THEN Ok(JBoolean(FALSE), f.cur)
        ELSE Err(SyntaxError, f.cur)

\* parse_number, maybe_decimal, the number after the zeroes: it counts when
\* it is not negative, as number / 10^digits, added to f away from zero
\* when f is negative and towards +infinity otherwise (`f >= 0.`).
WithFraction(f, leading_zeroes, number) ==
    IF number.st = "panic" THEN number
    ELSE IF number.st = "some" /\ number.val >= 0
    THEN Some(AddDecimal(f, number.val, NDigits(number.val) + leading_zeroes, f < 0),
              number.cur)
    ELSE Some(IntAsF32(f), number.cur)

\* parse_number, maybe_decimal, after the zeroes
AfterZeroes(s, f, zeroes) ==
    WithFraction(f, Len(zeroes.val), ConsumeInt(s, zeroes.cur))

\* parse_number, maybe_decimal, after consume_byte('.')
AfterDot(s, c, f, dot) ==
    IF dot.st = "none" THEN Some(IntAsF32(f), c)
    ELSE AfterZeroes(s, f, ConsumeWhile(s, dot.cur, {"0"}))

\* parse_number, maybe_decimal: the mantissa f followed by an optional '.',
\* zeroes and an int; whatever fails after the '.', f stays (`.or(Some(f))`).
DecimalStage(s, c, f) == AfterDot(s, c, f, ConsumeByte(s, c, "."))

\* `consume_uint().map(|n| n as i32)`
UintAsI32(u) == IF u.st = "some" THEN Some(AsI32(u.val), u.cur) ELSE u

\* parse_number, the exponent after consume_byte('+')
ExponentAfterPlus(s, c, plus) ==
    IF plus.st = "some" THEN UintAsI32(ConsumeUint(s, plus.cur)) ELSE ConsumeInt(s, c)

\* parse_number had it kept the number when no exponent follows the 'e'
ExponentValueKept(d, exponent) ==
    IF exponent.st = "none" THEN Some(d, exponent.cur)
    ELSE IF exponent.st = "some"
    THEN Some(WithExponent(d, exponent.val), exponent.cur)
    ELSE exponent

\* parse_number, `exponent.and_then(..)`
ExponentValue(d, exponent) ==
    IF exponent.st = "some"
    THEN Some(WithExponent(d, exponent.val), exponent.cur)
    ELSE exponent

\* parse_number, maybe_exponent, after consume_byte('e') or consume_byte('E')
AfterE(s, c, d, e) ==
    IF e.st = "none" THEN Some(d, c)
    ELSE ExponentValue(d, ExponentAfterPlus(s, e.cur, ConsumeByte(s, e.cur, "+")))

\* parse_number, maybe_exponent: after 'e' or 'E' an exponent must follow
ExponentStage(s, c, d) ==
    AfterE(s, c, d, IF Peek(s, c) = "E" THEN ConsumeByte(s, c, "E")
                    ELSE ConsumeByte(s, c, "e"))

\* parse_number, its last statement
NumberOfExponent(exponent) ==
    IF exponent.st = "panic" THEN Panic(exponent.cur)
    ELSE IF exponent.st = "none" THEN Err(SyntaxError, exponent.cur)
    ELSE Ok(JNumber(exponent.val), exponent.cur)

NumberOfDecimal(s, decimal) ==
    IF decimal.st = "panic" THEN Panic(decimal.cur)
    ELSE NumberOfExponent(ExponentStage(s, decimal.cur, decimal.val))

NumberOfInt(s, int) ==
    IF int.st = "panic" THEN Panic(int.cur)
    ELSE IF int.st = "none" THEN Err(SyntaxError, int.cur)
    ELSE NumberOfDecimal(s, DecimalStage(s, int.cur, int.val))

\* JsonParser::parse_number
ParseNumber(s, c) == NumberOfInt(s, ConsumeInt(s, c))

RECURSIVE QStringEnd(_, _, _)
\* The consume_while of parse_qstring: stop at a '"' seen with the flag
\* down; the flag is up after a backslash and down after anything else.
QStringEnd(s, j, escaped) ==
    IF j >= Len(s) THEN j
    ELSE IF s[j + 1] = Quote /\ ~escaped THEN j
    ELSE QStringEnd(s, j + 1, s[j + 1] = Backslash)

\* parse_qstring, after the opening quote: the run and the closing quote
QStringOfRun(s, from, j) ==
    AndOk(ParseByte(s, j, Quote), JQString(SubSeq(s, from + 1, j)))

\* JsonParser::parse_qstring
ParseQString(s, c) ==
    IF ParseByte(s, c, Quote).st # "ok" THEN ParseByte(s, c, Quote)
    ELSE QStringOfRun(s, c + 1, QStringEnd(s, c + 1, FALSE))

RECURSIVE ParseAny(_, _)
RECURSIVE ArrayElements(_, _, _)
RECURSIVE ObjectPairs(_, _, _, _, _)

\* The cursor after trim_front, where the slice is in range
Trimmed(s, c) == TrimFront(s, c).cur

\* parse_array, its last statement: trim_front().parse_byte(']')
ArrayClose(s, c, array) ==
    IF ~SliceInRange(s, c) THEN Panic(c)
    ELSE AndOk(ParseByte(s, Trimmed(s, c), "]"), JArray(array))

\* parse_array, the element after a comma: its failure is a
\* TrailingCommaError at the cursor untrim_front leaves.
ElementAfterComma(s, array, token) ==
    IF token.st = "panic" THEN token
    ELSE IF token.st = "ok" THEN ArrayElements(s, token.cur, Append(array, token.val))
    ELSE IF UntrimFront(s, token.cur).st = "panic" THEN Panic(token.cur)
    ELSE Err(TrailingCommaError, UntrimFront(s, token.cur).cur)

\* parse_array, the while loop: an element is parsed only after a comma
ArrayElements(s, c, array) ==
    IF ~SliceInRange(s, c) THEN Panic(c)
    ELSE IF ParseByte(s, Trimmed(s, c), ",").st # "ok"
    THEN ArrayClose(s, Trimmed(s, c), array)
    ELSE ElementAfterComma(s, array, ParseAny(s, Trimmed(s, Trimmed(s, c) + 1)))

\* parse_array had it treated the failure of the first element as it treats
\* the failure of a later one
FirstElementReported(s, token) ==
    IF token.st = "panic" THEN token
    ELSE IF token.st = "ok" THEN ArrayElements(s, token.cur, <<token.val>>)
    ELSE IF UntrimFront(s, token.cur).st = "panic" THEN Panic(token.cur)
    ELSE Err(TrailingCommaError, UntrimFront(s, token.cur).cur)

\* parse_array, the first element: its failure is dropped (`.is_ok()`), the
\* cursor stays where that failure left it.
FirstElement(s, token) ==
    IF token.st = "panic" THEN token
    ELSE IF token.st = "ok" THEN ArrayElements(s, token.cur, <<token.val>>)
    ELSE ArrayClose(s, token.cur, <<>>)

\* JsonParser::parse_array
ParseArray(s, c) ==
    IF ParseByte(s, c, "[").st # "ok" THEN ParseByte(s, c, "[")
    ELSE FirstElement(s, ParseAny(s, Trimmed(s, c + 1)))

\* parse_object, `cursor -= key.len() - 1` of a repeated key: key.len() - 1
\* underflows for the empty key and the subtraction for a cursor below it:
\* a panic with overflow checks, the wrapped value without.
DuplicateKeyBackup(c, key) ==
    IF overflow_checks /\ (ByteLen(key) = 0 \/ c < ByteLen(key) - 1)
    THEN Panic(c)
    ELSE Err(DuplicateKeyError, c - (ByteLen(key) - 1))

\* parse_object, its last statement: trim_front().parse_byte('}')
ObjectClose(s, c, hashmap) ==
    IF ~SliceInRange(s, c) THEN Panic(c)
    ELSE AndOk(ParseByte(s, Trimmed(s, c), "}"), JObject(hashmap))

\* parse_object, the key after a comma: its failure is a
\* TrailingCommaError at the cursor untrim_front leaves.
KeyAfterComma(s, hashmap, key) ==
    IF key.st = "ok" THEN ObjectPairs(s, key.cur, hashmap, TRUE, key.val.v)
    ELSE IF UntrimFront(s, key.cur).st = "panic" THEN Panic(key.cur)
    ELSE Err(TrailingCommaError, UntrimFront(s, key.cur).cur)

\* parse_object, what follows a pair: a comma must be followed by a key;
\* without a comma the loop ends.
AfterPair(s, c, hashmap) ==
    IF ~SliceInRange(s, c) THEN Panic(c)
    ELSE IF ParseByte(s, Trimmed(s, c), ",").st # "ok"
    THEN ObjectPairs(s, Trimmed(s, c), hashmap, FALSE, <<>>)
    ELSE KeyAfterComma(s, hashmap, ParseQString(s, Trimmed(s, Trimmed(s, c) + 1)))

\* parse_object, the value of a pair: its failure is the failure of the
\* object (`?`), its value goes into the map.
PairValue(s, hashmap, key, token) ==
    IF token.st # "ok" THEN token
    ELSE AfterPair(s, token.cur, Insert(hashmap, key, token.val))

\* parse_object, the while loop, entered with the json_key just read (has_key
\* is FALSE for None): the key is checked against the map before its colon and
\* value are read.
ObjectPairs(s, c, hashmap, has_key, key) ==
    IF ~has_key THEN ObjectClose(s, c, hashmap)
    ELSE IF ContainsKey(hashmap, key) THEN DuplicateKeyBackup(c, key)
    ELSE IF ~SliceInRange(s, c) THEN Panic(c)
    ELSE IF ParseByte(s, Trimmed(s, c), ":").st # "ok"
    THEN ParseByte(s, Trimmed(s, c), ":")
    ELSE PairValue(s, hashmap, key, ParseAny(s, Trimmed(s, Trimmed(s, c) + 1)))

\* parse_object, the first key: its failure is dropped (`.ok()`)
FirstKey(s, key) ==
    ObjectPairs(s, key.cur, EmptyMap, key.st = "ok",
                IF key.st = "ok" THEN key.val.v ELSE <<>>)

\* JsonParser::parse_object
ParseObject(s, c) ==
    IF ParseByte(s, c, "{").st # "ok" THEN ParseByte(s, c, "{")
    ELSE FirstKey(s, ParseQString(s, Trimmed(s, c + 1)))

\* JsonParser::parse_any
ParseAny(s, c) ==
    LET ch == Peek(s, c) IN
    IF ch = "-" \/ IsDigit(ch) THEN ParseNumber(s, c)
    ELSE IF ch \in {"t", "f"} THEN ParseBoolean(s, c)
    ELSE IF ch = Quote THEN ParseQString(s, c)
    ELSE IF ch = "n" THEN ParseNull(s, c)
    ELSE IF ch = "[" THEN ParseArray(s, c)
    ELSE IF ch = "{" THEN ParseObject(s, c)
    ELSE Err(SyntaxError, c)

-----------------------------------------------------------------------------
(* Positions (Lexer::position) and JsonParser::parse *)

RECURSIVE Lines(_)
\* str::lines: split after every "\n" (a "\r" before it is dropped too); an
\* empty piece after the last "\n" is no line.
Lines(s) ==
    IF s = <<>> THEN <<>>
    ELSE IF \E i \in 1..Len(s) : s[i] = "\n"
    THEN LET i == Min({k \in 1..Len(s) : s[k] = "\n"})
             end == IF i > 1 /\ s[i - 1] = "\r" THEN i - 2 ELSE i - 1
         IN  <<SubSeq(s, 1, end)>> \o Lines(SubSeq(s, i + 1, Len(s)))
    ELSE <<s>>

\* Lexer::position: over the first `cursor` characters, the number of lines
\* and the length in bytes of the last one
Position(s, c) ==
    LET ls == Lines(SubSeq(s, 1, IF c < Len(s) THEN c ELSE Len(s))) IN
    [row |-> Len(ls), col |-> IF ls = <<>> THEN 0 ELSE ByteLen(ls[Len(ls)])]

\* JsonParser::parse, the line of the error: lines().skip(row - 1).take(1).
\* row - 1 underflows for row 0: a panic with overflow checks, a skip of
\* usize::MAX lines (nothing is left) without.
ErrorLine(s, row) ==
    IF row = 0 THEN <<>>
    ELSE IF row <= Len(Lines(s)) THEN Lines(s)[row] ELSE <<>>

\* JsonParser::parse, `.or_else(..)`: an error gets its position and line
ParseResult(s, r) ==
    IF r.st # "err" THEN r @@ [row |-> 0, col |-> 0, line |-> <<>>]
    ELSE IF Position(s, r.cur).row = 0 /\ overflow_checks
    THEN Panic(r.cur) @@ [row |-> 0, col |-> 0, line |-> <<>>]
    ELSE r @@ [row |-> Position(s, r.cur).row, col |-> Position(s, r.cur).col,
               line |-> ErrorLine(s, Position(s, r.cur).row)]

\* JsonParser::parse: trim_front().parse_any()
Parse(s, c) ==
    IF ~SliceInRange(s, c) THEN ParseResult(s, Panic(c))
    ELSE ParseResult(s, ParseAny(s, Trimmed(s, c)))

-----------------------------------------------------------------------------
(* The canonical rendering: impl Display for JsonToken                    *)
(* (src/src/json/token.rs).  A HashMap is iterated in an order the program *)
(* does not fix, so a value has a set of renderings.                       *)

DigitChar(i) == CHOOSE ch \in DigitChars : DigitVal(ch) = i

RECURSIVE IntDigits(_)
\* The decimal digits of n > 0
IntDigits(n) ==
    IF n < 10 THEN <<DigitChar(n)>> ELSE Append(IntDigits(n \div 10), DigitChar(n % 10))

Zeroes(k) == [i \in 1..k |-> "0"]

\* Display for f32: plain decimal notation, never an exponent
DisplayNumber(d) ==
    IF d.inf # 0 THEN (IF d.inf < 0 THEN <<"-">> ELSE <<>>) \o <<"i", "n", "f">>
    ELSE IF d.m = 0 THEN <<"0">>
    ELSE LET ds == IntDigits(Abs(d.m))
             sign == IF d.m < 0 THEN <<"-">> ELSE <<>>
             k == -d.e
         IN  IF d.e >= 0 THEN sign \o ds \o Zeroes(d.e)
             ELSE IF Len(ds) > k
             THEN sign \o SubSeq(ds, 1, Len(ds) - k) \o <<".">>
                  \o SubSeq(ds, Len(ds) - k + 1, Len(ds))
             ELSE sign \o <<"0", ".">> \o Zeroes(k - Len(ds)) \o ds

RECURSIVE EscapeDebug(_)
\* Debug for String, inside the quotes: '"' and '\' get a backslash, the
\* control characters their escape
EscapeDebug(str) ==
    IF str = <<>> THEN <<>>
    ELSE LET ch == Head(str) IN
         (CASE ch = Quote -> <<Backslash, Quote>>
            [] ch = Backslash -> <<Backslash, Backslash>>
            [] ch = "\n" -> <<Backslash, "n">>
            [] ch = "\t" -> <<Backslash, "t">>
            [] ch = "\r" -> <<Backslash, "r">>
            [] OTHER -> <<ch>>) \o EscapeDebug(Tail(str))

RECURSIVE Orders(_)
\* The sequences that list every element of a set once
Orders(S) ==
    IF S = {} THEN {<<>>}
    ELSE UNION {{<<x>> \o o : o \in Orders(S \ {x})} : x \in S}

RECURSIVE Display(_)
RECURSIVE DisplayList(_)
RECURSIVE DisplayEntries(_, _)

\* Debug for Vec<JsonToken>, between the brackets: the elements by ", "
DisplayList(a) ==
    IF a = <<>> THEN {<<>>}
    ELSE IF Len(a) = 1 THEN Display(a[1])
    ELSE {x \o <<",", " ">> \o y : x \in Display(a[1]), y \in DisplayList(Tail(a))}

\* Debug for HashMap<String, JsonToken>, between the braces, with the keys in
\* the order ks: `key: value` by ", ", the key by Debug for String
DisplayEntries(h, ks) ==
    IF ks = <<>> THEN {<<>>}
    ELSE LET key == <<Quote>> \o EscapeDebug(ks[1]) \o <<Quote, ":", " ">> IN
         IF Len(ks) = 1 THEN {key \o x : x \in Display(h[ks[1]])}
         ELSE {key \o x \o <<",", " ">> \o y :
                  x \in Display(h[ks[1]]), y \in DisplayEntries(h, Tail(ks))}

\* impl fmt::Display for JsonToken
Display(v) ==
    CASE v.t = "Null" -> {Null4}
      [] v.t = "Boolean" -> {IF v.v THEN True4 ELSE False5}
      [] v.t = "Number" -> {DisplayNumber(v.v)}
      [] v.t = "QString" -> {<<Quote>> \o v.v \o <<Quote>>}
      [] v.t = "Array" -> {<<"[">> \o x \o <<"]">> : x \in DisplayList(v.v)}
      [] v.t = "Object" ->
            UNION {{<<"{">> \o x \o <<"}">> : x \in DisplayEntries(v.v, ks)} :
                      ks \in Orders(DOMAIN v.v)}

-----------------------------------------------------------------------------
(* Properties and their application to a value (src/src/json/token.rs)     *)

\* enum JsonProperty: one record shape for every variant, the fields a
\* variant does not carry left empty
Dot(name) == [k |-> "Dot", name |-> name, index |-> 0, query |-> <<>>]
Bracket(name) == [k |-> "Bracket", name |-> name, index |-> 0, query |-> <<>>]
Index(i) == [k |-> "Index", name |-> <<>>, index |-> i, query |-> <<>>]
KeysProp == [k |-> "Keys", name |-> <<>>, index |-> 0, query |-> <<>>]
ValuesProp == [k |-> "Values", name |-> <<>>, index |-> 0, query |-> <<>>]
LengthProp == [k |-> "Length", name |-> <<>>, index |-> 0, query |-> <<>>]
MapProp(q) == [k |-> "Map", name |-> <<>>, index |-> 0, query |-> q]

\* No property
NoProperty == [k |-> "", name |-> <<>>, index |-> 0, query |-> <<>>]

\* The tag of a value as the model writes it, for comparison
Tag(token) == token.t

\* JsonToken::variant
Variant(token) == IF token.t = "QString" THEN "String" ELSE token.t

\* The four texts apply fails with: "key doesn't exist: '<name>'",
\* "Invalid index: '<index>'", "'<prop>' can only be applied on '<on>'.
\* Found '<found>' instead." and "Query structure doesn't match (near
\* '<prop>')."
KeyDoesntExist == "KeyDoesntExist"
InvalidIndex == "InvalidIndex"
TypeMismatch == "TypeMismatch"
QueryStructure == "QueryStructure"
NoApplyError == [kind |-> "", prop |-> NoProperty, found |-> ""]
ApplyError(kind, prop, found) == [kind |-> kind, prop |-> prop, found |-> found]

\* What one turn of apply's loop does: go on with the next property on a
\* value ("next"), return a value at once ("ok"), or return an error.
Continue(v) == [st |-> "next", val |-> v, err |-> NoApplyError]
ApplyOk(v) == [st |-> "ok", val |-> v, err |-> NoApplyError]
ApplyErr(kind, prop, found) ==
    [st |-> "err", val |-> NoValue, err |-> ApplyError(kind, prop, found)]

\* `break Some(prop)` and the error after the loop
Orphan(prop) == ApplyErr(QueryStructure, prop, "")

\* hashmap.keys() and hashmap.values() list the entries in the map's own
\* order: the keys of h as they come in order, a listing of every key
KeysInOrder(h, order) == SelectSeq(order, LAMBDA key : key \in DOMAIN h)

\* An arm of Dot and Bracket in which a bracketed name leaves a value that
\* is no Object as it is, for comparison
ApplyNameLenient(token, prop) ==
    IF token.t = "Object"
    THEN IF ContainsKey(token.v, prop.name)
         THEN Continue(token.v[prop.name])
         ELSE ApplyErr(KeyDoesntExist, prop, "")
    ELSE IF prop.k = "Bracket" THEN Continue(token) ELSE Orphan(prop)

\* apply, the arm of Dot and Bracket
ApplyName(token, prop) ==
    IF token.t = "Object"
    THEN IF ContainsKey(token.v, prop.name)
         THEN Continue(token.v[prop.name])
         ELSE ApplyErr(KeyDoesntExist, prop, "")
    ELSE Orphan(prop)

\* apply, the arm of Index (a usize)
ApplyIndex(token, prop) ==
    IF token.t = "Array"
    THEN IF prop.index < Len(token.v)
         THEN Continue(token.v[prop.index + 1])
         ELSE ApplyErr(InvalidIndex, prop, "")
    ELSE Orphan(prop)

\* apply, the arm of Keys: the array of the keys goes on with the rest
ApplyKeys(token, prop, order) ==
    IF token.t = "Object"
    THEN LET ks == KeysInOrder(token.v, order) IN
         Continue(JArray([i \in 1..Len(ks) |-> JQString(ks[i])]))
    ELSE ApplyErr(TypeMismatch, prop, Variant(token))

\* apply, the arm of Values
ApplyValues(token, prop, order) ==
    IF token.t = "Object"
    THEN LET ks == KeysInOrder(token.v, order) IN
         Continue(JArray([i \in 1..Len(ks) |-> token.v[ks[i]]]))
    ELSE ApplyErr(TypeMismatch, prop, Variant(token))

\* apply, the arm of Length: `return Ok(..)` inside the loop
ApplyLength(token, prop) ==
    IF token.t = "Array"
    THEN ApplyOk(JNumber(IntAsF32(Len(token.v))))
    ELSE ApplyErr(TypeMismatch, prop, Variant(token))

\* A collect that drops the elements that failed, for comparison
CollectPartial(results) ==
    LET good == SelectSeq(results, LAMBDA r : r.st # "err") IN
    Continue(JArray([i \in DOMAIN good |-> good[i].val]))

\* collect::<Result<Vec<_>, _>>()?: the first error in element order, or
\* the array of the values
Collect(results) ==
    IF \E i \in DOMAIN results : results[i].st = "err"
    THEN results[Min({i \in DOMAIN results : results[i].st = "err"})]
    ELSE Continue(JArray([i \in DOMAIN results |-> results[i].val]))

RECURSIVE Apply(_, _, _)

\* apply, the arm of Map
ApplyMap(token, prop, order) ==
    IF token.t = "Array"
    THEN Collect([i \in 1..Len(token.v) |-> Apply(token.v[i], prop.query, order)])
    ELSE ApplyErr(TypeMismatch, prop, Variant(token))

\* apply, the match on one property
ApplyProperty(token, prop, order) ==
    CASE prop.k \in {"Dot", "Bracket"} -> ApplyName(token, prop)
      [] prop.k = "Index" -> ApplyIndex(token, prop)
      [] prop.k = "Keys" -> ApplyKeys(token, prop, order)
      [] prop.k = "Values" -> ApplyValues(token, prop, order)
      [] prop.k = "Length" -> ApplyLength(token, prop)
      [] prop.k = "Map" -> ApplyMap(token, prop, order)

\* apply, after one property: the loop goes on or the call has returned
ApplyRest(r, rest, order) ==
    IF r.st = "next" THEN Apply(r.val, rest, order) ELSE r

\* JsonToken::apply: Ok(token.clone()) when the properties are used up
Apply(token, q, order) ==
    IF q = <<>> THEN ApplyOk(token)
    ELSE ApplyRest(ApplyProperty(token, Head(q), order), Tail(q), order)

-----------------------------------------------------------------------------
(* PropertyParser (src/src/json/parser.rs): the properties of a query text *)

\* The fixed forms of a property
KeysForm == <<".", "k", "e", "y", "s", "(", ")">>
ValuesForm == <<".", "v", "a", "l", "u", "e", "s", "(", ")">>
LengthForm == <<".", "l", "e", "n", "g", "t", "h", "(", ")">>
MapOpen == <<".", "m", "a", "p", "(">>

\* The characters of a text
Chars(s) == {s[i] : i \in DOMAIN s}

\* Option<Result<Property, usize>>, with the cursor after the call: None,
\* Some(Ok(property)), Some(Err(at)), or a panic inside the lexer
PropNone(c) == [st |-> "none", val |-> NoProperty, at |-> 0, cur |-> c]
PropOk(p, c) == [st |-> "ok", val |-> p, at |-> 0, cur |-> c]
PropErr(at, c) == [st |-> "err", val |-> NoProperty, at |-> at, cur |-> c]
PropPanic(c) == [st |-> "panic", val |-> NoProperty, at |-> 0, cur |-> c]

\* `option.and(Some(t))`
AndSome(r, t) == IF r.st = "some" THEN Some(t, r.cur) ELSE r

\* PropertyParser::try_consume
TryConsume(s, c, form, t) == AndSome(ConsumeString(s, c, form), t)

\* parse_dot_prop, the name run: an empty one is None
DotOfRun(run) ==
    IF run.st = "some" /\ run.val = <<>> THEN None(run.cur)
    ELSE AndSome(run, Dot(run.val))

\* parse_dot_prop, after consume_byte('.')
DotAfterByte(s, dot) ==
    IF dot.st # "some" THEN dot
    ELSE DotOfRun(ConsumeWhile(s, dot.cur, Chars(s) \ {".", "[", ")"}))

\* PropertyParser::parse_dot_prop
ParseDotProp(s, c) == DotAfterByte(s, ConsumeByte(s, c, "."))

\* parse_bracket_prop, the name run and the closing `"]`
BracketOfRun(s, run) ==
    IF run.st # "some" THEN run
    ELSE IF run.val = <<>> THEN None(run.cur)
    ELSE AndSome(ConsumeString(s, run.cur, <<Quote, "]">>), Bracket(run.val))

\* parse_bracket_prop, after consume_string("[\"")
BracketAfterOpen(s, open) ==
    IF open.st # "some" THEN open
    ELSE BracketOfRun(s, ConsumeWhile(s, open.cur, Chars(s) \ {Quote}))

\* PropertyParser::parse_bracket_prop
ParseBracketProp(s, c) ==
    BracketAfterOpen(s, ConsumeString(s, c, <<"[", Quote>>))

\* parse_array_index, after consume_int
IndexOfInt(s, num) ==
    IF num.st # "some" THEN num
    ELSE AndSome(ConsumeByte(s, num.cur, "]"), Index(num.val))

\* parse_array_index, after consume_byte('[')
IndexAfterByte(s, open) ==
    IF open.st # "some" THEN open ELSE IndexOfInt(s, ConsumeInt(s, open.cur))

\* PropertyParser::parse_array_index
ParseArrayIndex(s, c) == IndexAfterByte(s, ConsumeByte(s, c, "["))

RECURSIVE ParseAnyProperty(_, _)
RECURSIVE MapLoop(_, _, _)

\* parse_map_func, the closing ')' after the loop
MapClose(s, properties, c) ==
    AndSome(ConsumeByte(s, c, ")"), MapProp(properties))

\* A loop that closes the map after the first property, for comparison
MapLoopOnce(s, properties, maybe) ==
    IF maybe.st = "ok" THEN MapClose(s, <<maybe.val>>, maybe.cur)
    ELSE IF maybe.st = "panic" THEN LexPanic(maybe.cur)
    ELSE MapClose(s, properties, maybe.cur)

\* parse_map_func, the loop: maybe is what parse_any returned.  An Ok is
\* pushed; None and Err both end the loop, with the cursor where parse_any
\* left it.
MapLoop(s, properties, maybe) ==
    IF maybe.st = "ok"
    THEN MapLoop(s, Append(properties, maybe.val), ParseAnyProperty(s, maybe.cur))
    ELSE IF maybe.st = "panic" THEN LexPanic(maybe.cur)
    ELSE MapClose(s, properties, maybe.cur)

\* parse_map_func, after consume_string(".map(")
MapAfterOpen(s, open) ==
    IF open.st # "some" THEN open
    ELSE MapLoop(s, <<>>, ParseAnyProperty(s, open.cur))

\* PropertyParser::parse_map_func
ParseMapFunc(s, c) == MapAfterOpen(s, ConsumeString(s, c, MapOpen))

\* parse_any at a '.', the or_else chain: an alternative is tried where the
\* one before it left the cursor
OrDotProp(s, r) == IF r.st # "none" THEN r ELSE ParseDotProp(s, r.cur)
OrMapFunc(s, r) ==
    IF r.st # "none" THEN r ELSE OrDotProp(s, ParseMapFunc(s, r.cur))
OrLength(s, r) ==
    IF r.st # "none" THEN r
    ELSE OrMapFunc(s, TryConsume(s, r.cur, LengthForm, LengthProp))
OrValues(s, r) ==
    IF r.st # "none" THEN r
    ELSE OrLength(s, TryConsume(s, r.cur, ValuesForm, ValuesProp))
DotForms(s, c) == OrValues(s, TryConsume(s, c, KeysForm, KeysProp))

\* parse_any at a '[', by the character after it
BracketForms(s, c) ==
    IF PeekAt(s, c + 1) = Quote THEN ParseBracketProp(s, c)
    ELSE ParseArrayIndex(s, c)

\* `Some(maybe_property.ok_or(cursor))`, the cursor read after the attempts
OkOrCursor(maybe) ==
    CASE maybe.st = "some" -> PropOk(maybe.val, maybe.cur)
      [] maybe.st = "none" -> PropErr(maybe.cur, maybe.cur)
      [] maybe.st = "panic" -> PropPanic(maybe.cur)

\* PropertyParser::parse_any
ParseAnyProperty(s, c) ==
    CASE Peek(s, c) = "." -> OkOrCursor(DotForms(s, c))
      [] Peek(s, c) = "[" ->
            IF PeekAt(s, c + 1) \in {Quote, "-"} \cup DigitChars
            THEN OkOrCursor(BracketForms(s, c))
            ELSE PropErr(c + 2, c)
      [] Peek(s, c) = "" -> PropNone(c)
      [] OTHER -> PropErr(c + 1, c)

\* The digits of an integer as a query writes it
SignedDigits(i) == IF i < 0 THEN <<"-">> \o IntDigits(-i) ELSE IntDigits(i)

RECURSIVE SourceForms(_)

\* The text parse_any reads a property from
SourceForm(prop) ==
    CASE prop.k = "Dot" -> <<".">> \o prop.name
      [] prop.k = "Bracket" -> <<"[", Quote>> \o prop.name \o <<Quote, "]">>
      [] prop.k = "Index" -> <<"[">> \o SignedDigits(prop.index) \o <<"]">>
      [] prop.k = "Keys" -> KeysForm
      [] prop.k = "Values" -> ValuesForm
      [] prop.k = "Length" -> LengthForm
      [] prop.k = "Map" -> MapOpen \o SourceForms(prop.query) \o <<")">>

\* The text of a sequence of properties, one after the other
SourceForms(q) ==
    IF q = <<>> THEN <<>> ELSE SourceForm(Head(q)) \o SourceForms(Tail(q))

-----------------------------------------------------------------------------
(* The texts the parser is run on *)

\* The longest run of spaces between two tokens of a text
MaxWs == 2
\* The deepest nesting of a text inside arrays and objects
MaxDepth == 1
\* The longest text over the characters of a number
MaxNumberLen == 4
\* The longest text over the characters of a string
MaxStringLen == 5

RECURSIVE SeqsUpTo(_, _)
\* The sequences over S of length at most n
SeqsUpTo(S, n) ==
    IF n = 0 THEN {<<>>}
    ELSE LET shorter == SeqsUpTo(S, n - 1) IN
         shorter \cup {Append(x, ch) : x \in {y \in shorter : Len(y) = n - 1}, ch \in S}

Q(str) == <<Quote>> \o str \o <<Quote>>

Spaces == {[i \in 1..n |-> " "] : n \in 0..MaxWs}

NumberChars == {"-", "0", "5", ".", "e", "+"}
NumberTexts == SeqsUpTo(NumberChars, MaxNumberLen) \cup {<<"5", "E", "5">>, <<"1", ".", "0", "2">>}

StringChars == {Quote, Backslash, "a"}
StringTexts == SeqsUpTo(StringChars, MaxStringLen)

Keys == {<<>>, <<"a">>, <<"a", "b">>, <<EAcute, "a", "b">>, <<Backslash, "a">>}

Scalars ==
    {<<>>, <<"x">>, <<"5">>, <<"-">>, <<"5", "e">>, <<"-", "5", "e", "-", "1">>,
     <<"5", ".", "5">>, Null4, <<"n">>, True4, False5, <<"f", "a">>,
     Q(<<"a">>), <<Quote, "a">>, Q(<<"a", Backslash, Quote, "b">>)}

\* What stands where an element or a pair is expected
ElementTexts == {<<>>, <<"5">>, <<"x">>, <<"5", "e">>, <<"-">>, <<"n">>, <<Quote, "a">>, <<",">>}

ArrayTexts ==
    {<<"[">> \o first \o sep \o elem \o close :
        first \in {<<>>, <<"5">>},
        sep \in {<<>>} \cup {<<",">> \o w : w \in Spaces},
        elem \in ElementTexts,
        close \in {<<>>, <<"]">>}}

PairTexts ==
    {<<>>, <<"x">>, <<",">>, <<Quote, "b">>}
    \cup {Q(k) \o colon \o val : k \in {<<>>, <<"a">>, <<"b">>},
                                 colon \in {<<":">>, <<" ">>},
                                 val \in {<<>>, <<"5">>}}

ObjectTexts ==
    {<<"{">> \o first \o sep \o next \o close :
        first \in {<<>>} \cup {Q(k) \o colon \o <<"5">> : k \in {<<>>, <<"a">>},
                                                     colon \in {<<":">>, <<" ">>}},
        sep \in {<<>>} \cup {<<",">> \o w : w \in Spaces},
        next \in PairTexts,
        close \in {<<>>, <<"}">>}}

\* An object of two pairs
TwoKeyText(k1, k2, w) ==
    <<"{">> \o Q(k1) \o <<":", "5", ",">> \o w \o Q(k2) \o <<":", "5", "}">>

\* Objects of two pairs, the keys of every length
TwoKeyTexts == {TwoKeyText(k1, k2, w) : k1 \in Keys, k2 \in Keys, w \in Spaces}

\* A comma before the first element or key, after whitespace
SpacedLeadingCommas ==
    {<<"[">> \o w \o <<",", "5", "]">> : w \in Spaces}
    \cup {<<"{">> \o w \o <<",">> \o Q(<<"a">>) \o <<":", "5", "}">> : w \in Spaces}

Cores == Scalars \cup ArrayTexts \cup ObjectTexts \cup TwoKeyTexts \cup SpacedLeadingCommas

\* What a text is nested in: the text before it and the text after it
Nests ==
    {<<<<"[">>, <<"]">>>>,
     <<<<"[", "5", ",", " ">>, <<"]">>>>,
     <<<<"{">> \o Q(<<"k">>) \o <<":", " ">>, <<"}">>>>}

RECURSIVE Contexts(_)
Contexts(d) ==
    IF d = 0 THEN {<<<<>>, <<>>>>}
    ELSE LET inner == Contexts(d - 1) IN
         inner \cup {<<n[1] \o c[1], c[2] \o n[2]>> : n \in Nests, c \in inner}

\* What follows the outermost value
Trailers == {<<>>, <<" ">>, <<" ", "x">>, <<"]">>, <<"\n", "5">>}

JsonTexts ==
    {c[1] \o core \o c[2] : c \in Contexts(MaxDepth), core \in Cores}
    \cup {core \o t : core \in Cores, t \in Trailers}

-----------------------------------------------------------------------------
(* The values and queries apply is run on, and the query texts *)

\* The longest query that is applied, and the longest run of properties
\* outside a map in a query text
MaxQueryLen == 2
\* The deepest nesting of `.map(` in a query text
MaxMapDepth == 2

Num(n) == JNumber(IntAsF32(n))
NameA == <<"a">>
NameB == <<"b">>
ObjectA(v) == JObject(Insert(EmptyMap, NameA, v))
ObjectB(v) == JObject(Insert(EmptyMap, NameB, v))
ObjectAB(va, vb) == JObject(Insert(Insert(EmptyMap, NameA, va), NameB, vb))

\* The orders a map of these keys may list them in
HashOrders == Orders({NameA, NameB})

\* The values, in a list
TokenValues ==
    <<JNull, JBoolean(TRUE), Num(5), JQString(<<"a", "b", "c", "d">>),
     JArray(<<>>), JArray(<<Num(1), Num(2), Num(3)>>),
     JObject(EmptyMap), ObjectAB(Num(1), Num(2)),
     ObjectAB(JArray(<<Num(1), Num(2)>>), JQString(<<"a", "b">>)),
     JArray(<<ObjectA(Num(1)), ObjectA(Num(2)), ObjectAB(Num(3), Num(4))>>),
     JArray(<<ObjectA(Num(1)), ObjectB(Num(2))>>),
     JArray(<<ObjectB(Num(1)), Num(5)>>),
     JArray(<<JArray(<<Num(1)>>), JArray(<<>>)>>)>>

ApplyProperties ==
    {Dot(NameA), Dot(NameB), Bracket(NameA), Index(0), Index(1), Index(3),
     KeysProp, ValuesProp, LengthProp,
     MapProp(<<>>), MapProp(<<Dot(NameA)>>), MapProp(<<Bracket(NameA)>>),
     MapProp(<<LengthProp>>), MapProp(<<Index(0)>>)}

ApplyQueries == SeqsUpTo(ApplyProperties, MaxQueryLen)

\* The properties of the query texts; the names k and map begin a fixed
\* form, the index 12 has two digits
QueryNames == {NameA, <<"k">>, <<"m", "a", "p">>}
QueryProperties ==
    {Dot(name) : name \in QueryNames}
    \cup {Bracket(NameA), Index(0), Index(-1), Index(12),
          KeysProp, ValuesProp, LengthProp}

\* The queries inside a map, without a map of their own
SubQueries ==
    {<<>>, <<Dot(NameA)>>, <<Dot(<<"k">>)>>, <<KeysProp>>, <<ValuesProp, Index(0)>>,
     <<Bracket(NameA), LengthProp>>}

\* What follows a map
AfterMap == {<<>>, <<Index(0)>>, <<Dot(NameA)>>, <<KeysProp>>}

RECURSIVE NestedQueries(_)
\* The queries inside a map, with maps nested up to depth d inside them
NestedQueries(d) ==
    IF d = 0 THEN SubQueries
    ELSE SubQueries
         \cup {<<MapProp(q)>> \o t : q \in NestedQueries(d - 1), t \in AfterMap}

\* The queries with a map in front
MapQueries == {<<MapProp(q)>> \o t : q \in NestedQueries(MaxMapDepth - 1), t \in AfterMap}

QuerySequences == SeqsUpTo(QueryProperties, MaxQueryLen) \cup MapQueries

Prefixes(s) == {SubSeq(s, 1, n) : n \in 0..Len(s)}

\* Texts that are no prefix of a query: characters that start no property,
\* and indices at and beyond the ends of i32 and u32
OtherQueryTexts ==
    {<<"x">>, <<".", ".">>, <<".", "a", ")">>, <<".", "a", "x">>,
     <<"[", "x", "]">>, <<"[", "-", "]">>, <<"[", "0", "x">>,
     <<"[", Quote, Quote, "]">>, <<".", "k", "e", "y", "s", "(", ")", "x">>,
     <<"[">> \o I32MaxDigits \o <<"]">>,
     <<"[", "-">> \o I32MaxDigits \o <<"]">>,
     <<"[", "2", "1", "4", "7", "4", "8", "3", "6", "4", "8", "]">>,
     <<"[", "-", "2", "1", "4", "7", "4", "8", "3", "6", "4", "8", "]">>,
     <<"[">> \o U32MaxDigits \o <<"]">>,
     <<"[", "-">> \o U32MaxDigits \o <<"]">>,
     <<"[", "4", "2", "9", "4", "9", "6", "7", "2", "9", "6", "]">>}

QueryTexts ==
    UNION {Prefixes(SourceForms(q)) : q \in QuerySequences} \cup OtherQueryTexts

-----------------------------------------------------------------------------
(* The command line: Cli::parse_and_populate (src/src/cli.rs) on the Cli   *)
(* the tests build.  A string is the sequence of its characters.           *)

\* The flags of a Cli, in the order of its Vec: the two of Cli::new and the
\* three that create_cli adds (-h and -v a second time)
CliFlags ==
    <<[short |-> <<"-", "h">>, long |-> <<"-", "-", "h", "e", "l", "p">>],
      [short |-> <<"-", "v">>, long |-> <<"-", "-", "v", "e", "r", "s", "i", "o", "n">>],
      [short |-> <<"-", "h">>, long |-> <<"-", "-", "h", "e", "l", "p">>],
      [short |-> <<"-", "v">>, long |-> <<"-", "-", "v", "e", "r", "s", "i", "o", "n">>],
      [short |-> <<"-", "a">>, long |-> <<"-", "-", "a", "r", "g", "u", "m", "e", "n", "t">>]>>

\* The options of create_cli; default is the Option<String>, no string or one
CliOptions ==
    <<[name |-> "option1", default |-> <<<<"d", "e", "f", "a", "u", "l", "t">>>>,
       short |-> <<"-", "1">>, long |-> <<"-", "-", "o", "p", "t", "i", "o", "n", "1">>],
      [name |-> "option2", default |-> <<>>,
       short |-> <<"-", "2">>, long |-> <<"-", "-", "o", "p", "t", "i", "o", "n", "2">>],
      [name |-> "option3", default |-> <<>>,
       short |-> <<"-", "3">>, long |-> <<"-", "-", "o", "p", "t", "i", "o", "n", "3">>],
      [name |-> "option4", default |-> <<>>,
       short |-> <<"-", "4">>, long |-> <<"-", "-", "o", "p", "t", "i", "o", "n", "4">>],
      [name |-> "option5", default |-> <<<<"d", "e", "f", "a", "u", "l", "t">>>>,
       short |-> <<"-", "5">>, long |-> <<"-", "-", "o", "p", "t", "i", "o", "n", "5">>]>>

\* CliFlag::matches: the short or the long spelling, exactly
Matches(flag, arg) == arg = flag.short \/ arg = flag.long

\* The first of the flags or options that matches, `for .. in .iter()`; 0 if
\* none does
FirstMatch(list, arg) ==
    IF \A i \in DOMAIN list : ~Matches(list[i], arg) THEN 0
    ELSE Min({i \in DOMAIN list : Matches(list[i], arg)})

\* assoc_value, after match_char('='): the rest of the argument
AssocAfterEq(arg, eq) ==
    IF eq.st # "some" THEN eq ELSE Some(SubSeq(arg, eq.cur + 1, Len(arg)), eq.cur)

\* assoc_value, after match_string(long)
AssocAfterLong(arg, long) ==
    IF long.st # "some" THEN long ELSE AssocAfterEq(arg, ConsumeByte(arg, long.cur, "="))

\* CliOption::assoc_value: the value of `--option=value`
AssocValue(opt, arg) == AssocAfterLong(arg, ConsumeString(arg, 0, opt.long))

\* The first option that a long argument matches or carries a value of
LongOption(arg) ==
    IF \A i \in DOMAIN CliOptions :
          ~Matches(CliOptions[i], arg) /\ AssocValue(CliOptions[i], arg).st # "some"
    THEN 0
    ELSE Min({i \in DOMAIN CliOptions :
                 Matches(CliOptions[i], arg) \/ AssocValue(CliOptions[i], arg).st = "some"})

\* No call, and no error
NoCliErr == [kind |-> "", name |-> "", flag |-> <<>>]
NoCli ==
    [argv |-> <<>>, next |-> 0, flags |-> <<>>, options |-> {}, pc |-> "none",
     file |-> <<>>, err |-> NoCliErr]

\* Ok(None), Ok(Some(arg)): file is the Option<String>
CliOk(c, file) == [c EXCEPT !.pc = "ok", !.file = file]

\* Err("'<name>' cannot be empty.") and Err("Invalid flag: '<flag>'.")
CliErr(c, kind, name, flag) ==
    [c EXCEPT !.pc = "err", !.err = [kind |-> kind, name |-> name, flag |-> flag]]

\* HashMap::insert: options is the set of the pairs <<name, value>>
HashInsert(options, name, value) ==
    {o \in options : o[1] # name} \cup {<<name, value>>}

RECURSIVE InsertDefaults(_, _)
\* The options that have a default value, inserted before the main loop
InsertDefaults(options, i) ==
    IF i > Len(CliOptions) THEN options
    ELSE IF CliOptions[i].default = <<>> THEN InsertDefaults(options, i + 1)
    ELSE InsertDefaults(HashInsert(options, CliOptions[i].name, CliOptions[i].default[1]),
                        i + 1)

\* args.next()
HasNext(c) == c.next < Len(c.argv)
NextArg(c) == c.argv[c.next + 1]
Consumed(c) == [c EXCEPT !.next = @ + 1]

\* The value of an option is the next argument: an error if none is left
ValueFromNext(c, name) ==
    IF HasNext(c)
    THEN [c EXCEPT !.options = HashInsert(@, name, NextArg(c)), !.next = @ + 1]
    ELSE CliErr(c, "cannot be empty", name, <<>>)

\* format!("-{}", ch)
FlagArg(ch) == <<"-", ch>>

\* An option that always takes the next argument as its value, for comparison
ShortOptionNext(c, opt, rest) ==
    IF FirstMatch(CliOptions, opt) = 0 THEN CliErr(c, "Invalid flag", "", opt)
    ELSE ValueFromNext(c, CliOptions[FirstMatch(CliOptions, opt)].name)

\* What ends a group of short flags is an option: its value is the rest of
\* the argument, or the next argument when there is no rest
ShortOption(c, opt, rest) ==
    IF FirstMatch(CliOptions, opt) = 0 THEN CliErr(c, "Invalid flag", "", opt)
    ELSE IF rest = <<>>
    THEN ValueFromNext(c, CliOptions[FirstMatch(CliOptions, opt)].name)
    ELSE [c EXCEPT !.options =
             HashInsert(@, CliOptions[FirstMatch(CliOptions, opt)].name, rest)]

RECURSIVE FlagRun(_, _)
\* The loop 'flags: the place of the first character from i on that is no flag
FlagRun(arg, i) ==
    IF i <= Len(arg) /\ FirstMatch(CliFlags, FlagArg(arg[i])) # 0
    THEN FlagRun(arg, i + 1)
    ELSE i

\* A single hyphen and other characters: the flags up to the place i are
\* pushed, and the character at i, if there is one, is an option
ShortGroup(c, arg, i) ==
    IF i > Len(arg)
    THEN [c EXCEPT !.flags = @ \o [k \in 1..(i - 2) |-> FlagArg(arg[k + 1])]]
    ELSE ShortOption([c EXCEPT !.flags = @ \o [k \in 1..(i - 2) |-> FlagArg(arg[k + 1])]],
                     FlagArg(arg[i]), SubSeq(arg, i + 1, Len(arg)))

\* A double hyphen and other characters: a flag, an option and its value in
\* the next argument or after its '=', or else the end of the command
LongArg(c, arg) ==
    IF FirstMatch(CliFlags, arg) # 0
    THEN [c EXCEPT !.flags = Append(@, CliFlags[FirstMatch(CliFlags, arg)].short)]
    ELSE IF LongOption(arg) = 0 THEN CliOk(c, <<arg>>)
    ELSE IF Matches(CliOptions[LongOption(arg)], arg)
    THEN ValueFromNext(c, CliOptions[LongOption(arg)].name)
    ELSE [c EXCEPT !.options =
             HashInsert(@, CliOptions[LongOption(arg)].name,
                        AssocValue(CliOptions[LongOption(arg)], arg).val)]

-----------------------------------------------------------------------------
(* The texts and arguments the operations of the Lexer are called on *)

\* The longest text over the characters of LexerChars
MaxLexerLen == 3
\* The cursor beyond which no further operation is called
MaxCursor == 4

\* The operations of the Lexer
LexerOps ==
    {"consume_byte", "consume_string", "consume_while", "consume_uint", "consume_int",
     "position"}

LexerChars == {"-", "5", "n", " "}

\* Digit runs at and beyond the ends of i32 and u32
LongDigitRuns ==
    {I32MaxDigits, <<"2", "1", "4", "7", "4", "8", "3", "6", "4", "8">>,
     U32MaxDigits, <<"4", "2", "9", "4", "9", "6", "7", "2", "9", "6">>}

LexerTexts ==
    SeqsUpTo(LexerChars, MaxLexerLen)
    \cup {Null4, True4, False5, <<"n", "u", "l">>, <<"N", "u", "l", "l">>,
          <<"n", "u", "l", "x">>, <<"t", "r", "u">>,
          <<"\n">>, <<"n", "\n", "5">>, <<"n", "\n", "\n", "5", "5">>,
          <<"5", "\r", "\n", "5">>}
    \cup LongDigitRuns \cup {<<"-">> \o d : d \in LongDigitRuns}

\* The characters consume_byte is called with, the texts consume_string is
\* called with, and the predicates of consume_while as sets of characters
LexerBytes == {"-", "5", "n"}
LexerLiterals == {Null4, True4, <<"n", "5">>}
LexerRuns == {DigitChars, WhitespaceChars}

-----------------------------------------------------------------------------
(* The state: one JsonParser (its Lexer: stack and cursor), the result of  *)
(* the call made on it, and the build's overflow checks.                   *)

NoPosition == [row |-> 0, col |-> 0, line |-> <<>>]
NoRet == [op |-> "new", from |-> 0] @@ Ok(NoValue, 0) @@ NoPosition

\* apply has not returned ("pending"), or no call of apply is made ("idle")
Pending == [st |-> "pending", val |-> NoValue, err |-> NoApplyError]
Idle == [st |-> "idle", val |-> NoValue, err |-> NoApplyError]

\* A call of apply on the value v with the query q
Applying(v, q, order) ==
    [self |-> v, query |-> q, token |-> v, properties |-> q, order |-> order,
     result |-> Pending]
NoEval ==
    [self |-> NoValue, query |-> <<>>, token |-> NoValue, properties |-> <<>>,
     order |-> <<>>, result |-> Idle]

\* apply after one turn of its loop
AfterTurn(r) ==
    IF r.st = "next"
    THEN [eval EXCEPT !.token = r.val, !.properties = Tail(@)]
    ELSE [eval EXCEPT !.properties = Tail(@), !.result = r]

TypeOK ==
    /\ stack \in Seq(STRING)
    /\ cursor \in Int
    /\ overflow_checks \in BOOLEAN
    /\ ret.op \in {"new", "parse", "parse_any", "parse_null", "parse_boolean",
                   "parse_number", "parse_qstring", "parse_array", "parse_object",
                   "query_new"} \cup LexerOps
    /\ ret.st \in {"ok", "err", "panic", "some", "none"}
    /\ \A i \in DOMAIN query :
          query[i].k \in {"Dot", "Bracket", "Index", "Keys", "Values", "Length", "Map"}
    /\ eval.result.st \in {"idle", "pending", "ok", "err"}

\* JsonParser::new
New(texts) ==
    /\ stack \in texts
    /\ cursor = 0
    /\ ret = NoRet
    /\ overflow_checks \in BOOLEAN
    /\ rendered_from = NoValue
    /\ query = <<>>
    /\ eval = NoEval
    /\ cli = NoCli

\* A call of a public method of the parser, the one call made on it (main
\* and the tests make one call on each parser they build).
Call(op, r) ==
    /\ ret.op = "new"
    /\ ret' = [op |-> op, from |-> cursor] @@ r
    /\ cursor' = r.cur
    /\ UNCHANGED <<stack, overflow_checks, rendered_from, query, eval, cli>>

DoParse == Call("parse", Parse(stack, cursor))
DoParseAny == Call("parse_any", ParseAny(stack, cursor) @@ NoPosition)
DoParseNull == Call("parse_null", ParseNull(stack, cursor) @@ NoPosition)
DoParseBoolean == Call("parse_boolean", ParseBoolean(stack, cursor) @@ NoPosition)
DoParseNumber == Call("parse_number", ParseNumber(stack, cursor) @@ NoPosition)
DoParseQString == Call("parse_qstring", ParseQString(stack, cursor) @@ NoPosition)
DoParseArray == Call("parse_array", ParseArray(stack, cursor) @@ NoPosition)
DoParseObject == Call("parse_object", ParseObject(stack, cursor) @@ NoPosition)

\* The value parse returned is rendered (Display) and a new parser is built
\* on the rendering.
Rerender ==
    /\ ret.op = "parse"
    /\ ret.st = "ok"
    /\ rendered_from = NoValue
    /\ stack' \in Display(ret.val)
    /\ cursor' = 0
    /\ ret' = NoRet
    /\ rendered_from' = ret.val
    /\ UNCHANGED <<overflow_checks, query, eval, cli>>

Next ==
    \/ DoParse
    \/ DoParseAny
    \/ DoParseNull
    \/ DoParseBoolean
    \/ DoParseNumber
    \/ DoParseQString
    \/ DoParseArray
    \/ DoParseObject
    \/ Rerender

Init == New(JsonTexts)
InitNumber == New(NumberTexts)
InitString == New(StringTexts)

Spec == Init /\ [][Next]_vars
SpecNumber == InitNumber /\ [][Next]_vars
SpecString == InitString /\ [][Next]_vars

-----------------------------------------------------------------------------
(* JsonQuery::new on a PropertyParser, one call of next() at a time: the   *)
(* text is in stack, the properties pushed so far in query.                *)

\* lexer.next() is Some(Ok(property)): properties.push(property)
QueryPush ==
    /\ ret.op = "new"
    /\ ParseAnyProperty(stack, cursor).st = "ok"
    /\ query' = Append(query, ParseAnyProperty(stack, cursor).val)
    /\ cursor' = ParseAnyProperty(stack, cursor).cur
    /\ UNCHANGED <<stack, ret, overflow_checks, rendered_from, eval, cli>>

\* How JsonQuery::new returns
QueryReturn(st, r) ==
    /\ ret.op = "new"
    /\ ParseAnyProperty(stack, cursor).st = st
    /\ ret' = [op |-> "query_new", from |-> 0] @@ r @@ NoPosition
    /\ cursor' = ParseAnyProperty(stack, cursor).cur
    /\ UNCHANGED <<stack, overflow_checks, rendered_from, query, eval, cli>>

\* lexer.next() is None: Ok(JsonQuery)
QueryEnd == QueryReturn("none", Ok(NoValue, cursor))

\* lexer.next() is Some(Err(pointer)): the SyntaxError, cur its pointer
QuerySyntaxError ==
    QueryReturn("err", Err(SyntaxError, ParseAnyProperty(stack, cursor).at))

\* consume_int overflows in a build with overflow checks
QueryOverflow == QueryReturn("panic", Panic(cursor))

NextQuery ==
    \/ QueryPush
    \/ QueryEnd
    \/ QuerySyntaxError
    \/ QueryOverflow

InitQuery == New(QueryTexts)

SpecQuery == InitQuery /\ [][NextQuery]_vars

-----------------------------------------------------------------------------
(* JsonToken::apply, one turn of its loop at a time.  eval holds the call: *)
(* the value and query it was made with, the token and the properties not  *)
(* yet read, the order the maps list their keys in, and what it returned.  *)

\* One turn of the loop on a property of one of the kinds
Turn(kinds) ==
    /\ eval.result.st = "pending"
    /\ eval.properties # <<>>
    /\ Head(eval.properties).k \in kinds
    /\ eval' = AfterTurn(ApplyProperty(eval.token, Head(eval.properties), eval.order))
    /\ UNCHANGED <<stack, cursor, ret, overflow_checks, rendered_from, query, cli>>

TurnName == Turn({"Dot", "Bracket"})
TurnIndex == Turn({"Index"})
TurnKeys == Turn({"Keys"})
TurnValues == Turn({"Values"})
TurnLength == Turn({"Length"})
TurnMap == Turn({"Map"})

\* properties.next() is None: Ok(token.clone())
TurnEnd ==
    /\ eval.result.st = "pending"
    /\ eval.properties = <<>>
    /\ eval' = [eval EXCEPT !.result = ApplyOk(eval.token)]
    /\ UNCHANGED <<stack, cursor, ret, overflow_checks, rendered_from, query, cli>>

NextApply ==
    \/ TurnName
    \/ TurnIndex
    \/ TurnKeys
    \/ TurnValues
    \/ TurnLength
    \/ TurnMap
    \/ TurnEnd

InitApply ==
    /\ stack = <<>>
    /\ cursor = 0
    /\ ret = NoRet
    /\ overflow_checks = TRUE
    /\ rendered_from = NoValue
    /\ query = <<>>
    /\ cli = NoCli
    /\ \E i \in DOMAIN TokenValues, q \in ApplyQueries, order \in HashOrders :
          eval = Applying(TokenValues[i], q, order)

SpecApply == InitApply /\ [][NextApply]_vars

-----------------------------------------------------------------------------
(* The Lexer by itself: its operations, called one after the other in any  *)
(* order on one text.  ret is the last call, with its argument.            *)

\* A call of an operation of the Lexer; a panic ends the run
LexerCall(op, arg, r) ==
    /\ ret.st # "panic"
    /\ cursor <= MaxCursor
    /\ ret' = [op |-> op, from |-> cursor, arg |-> arg] @@ r @@ [kind |-> ""] @@ NoPosition
    /\ cursor' = r.cur
    /\ UNCHANGED <<stack, overflow_checks, rendered_from, query, eval, cli>>

DoConsumeByte ==
    \E x \in LexerBytes : LexerCall("consume_byte", x, ConsumeByte(stack, cursor, x))
DoConsumeString ==
    \E ys \in LexerLiterals :
       LexerCall("consume_string", ys, ConsumeString(stack, cursor, ys))
DoConsumeWhile ==
    \E chars \in LexerRuns :
       LexerCall("consume_while", chars, ConsumeWhile(stack, cursor, chars))
DoConsumeUint == LexerCall("consume_uint", <<>>, ConsumeUint(stack, cursor))
DoConsumeInt == LexerCall("consume_int", <<>>, ConsumeInt(stack, cursor))

\* Lexer::position of an offset of the text; the cursor stays
DoPosition ==
    \E c \in 0..Len(stack) :
       /\ ret.st # "panic"
       /\ cursor <= MaxCursor
       /\ ret' = [op |-> "position", from |-> cursor, arg |-> c]
                 @@ Position(stack, c) @@ Ok(NoValue, cursor) @@ NoPosition
       /\ UNCHANGED <<stack, cursor, overflow_checks, rendered_from, query, eval, cli>>

NextLexer ==
    \/ DoPosition
    \/ DoConsumeByte
    \/ DoConsumeString
    \/ DoConsumeWhile
    \/ DoConsumeUint
    \/ DoConsumeInt

InitLexer == New(LexerTexts)

SpecLexer == InitLexer /\ [][NextLexer]_vars

-----------------------------------------------------------------------------
(* The command lines parse_and_populate is called on *)

\* The most spellings in a command line
MaxPieces == 2

\* The values of options: a word, and one that looks like a flag
CliValues == {<<"v", "a", "l", "u", "e">>, <<"-", "a">>}

\* The accepted spellings, each with what it gives: the flags, and the
\* name and the value of the option (no name: no option)
FlagGroups ==
    {[args |-> <<<<"-", "a">>>>, flags |-> <<<<"-", "a">>>>, name |-> "", value |-> <<>>],
     [args |-> <<<<"-", "a", "v">>>>, flags |-> <<<<"-", "a">>, <<"-", "v">>>>, name |-> "", value |-> <<>>],
     [args |-> <<<<"-", "h">>>>, flags |-> <<<<"-", "h">>>>, name |-> "", value |-> <<>>]}
ShortWithNext ==
    {[args |-> <<<<"-", "a", "v", "1">>, v>>, flags |-> <<<<"-", "a">>, <<"-", "v">>>>, name |-> "option1", value |-> v] : v \in CliValues}
ShortWithRest ==
    {[args |-> <<<<"-", "h", "2">> \o v>>, flags |-> <<<<"-", "h">>>>, name |-> "option2", value |-> v] : v \in CliValues}
    \cup {[args |-> <<<<"-", "5">> \o v>>, flags |-> <<>>, name |-> "option5", value |-> v] : v \in CliValues}
LongWithNext ==
    {[args |-> <<<<"-", "-", "o", "p", "t", "i", "o", "n", "3">>, v>>, flags |-> <<>>, name |-> "option3", value |-> v] : v \in CliValues}
LongWithAssoc ==
    {[args |-> <<<<"-", "-", "o", "p", "t", "i", "o", "n", "4", "=">> \o v>>, flags |-> <<>>, name |-> "option4", value |-> v] : v \in CliValues}
    \cup {[args |-> <<<<"-", "-", "o", "p", "t", "i", "o", "n", "1", "=">>>>, flags |-> <<>>, name |-> "option1", value |-> <<>>]}
Spellings == FlagGroups \cup ShortWithNext \cup ShortWithRest \cup LongWithNext \cup LongWithAssoc

\* Other arguments: the ends of a command, flags and options that do not
\* exist, options without a value, a long flag
OtherArgs ==
    {<<"-">>,
     <<"-", "-">>,
     <<"f", "i", "l", "e">>,
     <<>>,
     <<"-", "x">>,
     <<"-", "a", "x">>,
     <<"-", "1">>,
     <<"-", "-", "o", "p", "t", "i", "o", "n", "3">>,
     <<"-", "-", "h", "e", "l", "p">>,
     <<"-", "-", "o", "p", "t", "i", "o">>,
     <<"-", "-", "o", "p", "t", "i", "o", "n", "2", "x", "=", "5">>}

RECURSIVE CommandLines(_)
\* The command lines of at most n spellings and other arguments
CommandLines(n) ==
    IF n = 0 THEN {<<>>}
    ELSE CommandLines(n - 1)
         \cup {l \o a : l \in CommandLines(n - 1),
                        a \in {s.args : s \in Spellings} \cup {<<o>> : o \in OtherArgs}}

\* The command line of the test success_cli
SuccessCli ==
    <<<<"-", "a", "v", "1">>,
      <<"v", "a", "l", "u", "e">>,
      <<"-", "h", "2", "v", "a", "l", "u", "e">>,
      <<"-", "-", "o", "p", "t", "i", "o", "n", "3">>,
      <<"v", "a", "l", "u", "e">>,
      <<"-", "-", "o", "p", "t", "i", "o", "n", "4", "=", "v", "a", "l", "u", "e">>>>

-----------------------------------------------------------------------------
(* parse_and_populate, one argument of its main loop at a time: cli holds  *)
(* the arguments, how many of them args.next() has given, and the flags    *)
(* and options of the caller.                                              *)

\* `for option in self.options.iter()`: the defaults, before the main loop
CliDefaults ==
    /\ cli.pc = "call"
    /\ cli' = [cli EXCEPT !.pc = "loop", !.options = InsertDefaults(@, 1)]
    /\ UNCHANGED <<stack, cursor, ret, overflow_checks, rendered_from, query, eval>>

\* No argument is left, or the argument is a single hyphen: Ok(None)
CliStdin ==
    /\ cli.pc = "loop"
    /\ IF HasNext(cli) THEN NextArg(cli) = <<"-">> ELSE TRUE
    /\ cli' = IF HasNext(cli) THEN CliOk(Consumed(cli), <<>>) ELSE CliOk(cli, <<>>)
    /\ UNCHANGED <<stack, cursor, ret, overflow_checks, rendered_from, query, eval>>

\* An argument without a hyphen at its start, or the double hyphen alone:
\* Ok(Some(arg))
CliFile ==
    /\ cli.pc = "loop"
    /\ HasNext(cli)
    /\ IF NextArg(cli) = <<>> THEN TRUE
       ELSE IF NextArg(cli)[1] # "-" THEN TRUE
       ELSE NextArg(cli) = <<"-", "-">>
    /\ cli' = CliOk(Consumed(cli), <<NextArg(cli)>>)
    /\ UNCHANGED <<stack, cursor, ret, overflow_checks, rendered_from, query, eval>>

\* An argument of a double hyphen and more
CliLong ==
    /\ cli.pc = "loop"
    /\ HasNext(cli)
    /\ Len(NextArg(cli)) >= 3
    /\ NextArg(cli)[1] = "-" /\ NextArg(cli)[2] = "-"
    /\ cli' = LongArg(Consumed(cli), NextArg(cli))
    /\ UNCHANGED <<stack, cursor, ret, overflow_checks, rendered_from, query, eval>>

\* An argument of a single hyphen and more
CliShort ==
    /\ cli.pc = "loop"
    /\ HasNext(cli)
    /\ Len(NextArg(cli)) >= 2
    /\ NextArg(cli)[1] = "-" /\ NextArg(cli)[2] # "-"
    /\ cli' = ShortGroup(Consumed(cli), NextArg(cli), FlagRun(NextArg(cli), 2))
    /\ UNCHANGED <<stack, cursor, ret, overflow_checks, rendered_from, query, eval>>

NextCli ==
    \/ CliDefaults
    \/ CliStdin
    \/ CliFile
    \/ CliLong
    \/ CliShort

\* A call with the flags and the options of the caller empty, as in main
\* and in the tests
InitCli ==
    /\ stack = <<>>
    /\ cursor = 0
    /\ ret = NoRet
    /\ overflow_checks = FALSE
    /\ rendered_from = NoValue
    /\ query = <<>>
    /\ eval = NoEval
    /\ \E line \in CommandLines(MaxPieces) \cup {SuccessCli} :
          cli = [NoCli EXCEPT !.argv = line, !.pc = "call"]

SpecCli == InitCli /\ [][NextCli]_vars

-----------------------------------------------------------------------------
(* Texts of a known shape and what the specification says of them *)

\* The public methods that parse a text as a value of any kind or as an
\* array or object
StructOps == {"parse", "parse_any", "parse_array", "parse_object"}

IsError(kind) == ret.st = "err" /\ ret.kind = kind

\* The offset of the opening quote of the second key of TwoKeyText(k1, k2, w)
SecondKeyStart(k1, w) == 1 + Len(Q(k1)) + 3 + Len(w)

\* What is no element of an array
BadElements == ElementTexts \ {<<"5">>}
\* What is no key of an object
BadKeys == {<<>>, <<"x">>, <<",">>, <<Quote, "b">>}

Closers(ch) == {<<>>, <<ch>>}
Commas == {<<",">> \o w : w \in Spaces}

\* A comma after one element or pair, and no element or key after the comma
TrailingCommaArrays ==
    {<<"[", "5">> \o sep \o bad \o close :
        sep \in Commas, bad \in BadElements, close \in Closers("]")}
TrailingCommaObjects ==
    {<<"{">> \o Q(k) \o <<":", "5">> \o sep \o bad \o close :
        k \in {<<>>, <<"a">>}, sep \in Commas, bad \in BadKeys, close \in Closers("}")}

\* A comma before the first element or key
LeadingCommaTexts ==
    {<<"[">> \o sep \o elem \o close :
        sep \in Commas, elem \in ElementTexts, close \in Closers("]")}
    \cup {<<"{">> \o sep \o next \o close :
        sep \in Commas, next \in PairTexts, close \in Closers("}")}
    \cup SpacedLeadingCommas

\* A pair without its colon (a space stands in its place) or without its
\* value: the first pair of an object, or the second pair under the key k2
\* after a pair under the key k1
IncompleteFirstPairs ==
    {<<"{">> \o Q(k) \o <<" ", "5">> \o sep \o next \o close :
        k \in {<<>>, <<"a">>}, sep \in {<<>>} \cup Commas, next \in PairTexts,
        close \in Closers("}")}
IncompleteSecondPair(k1, k2) ==
    {<<"{">> \o Q(k1) \o <<":", "5">> \o sep \o Q(k2) \o colon \o val \o close :
        sep \in Commas, colon \in {<<":">>, <<" ">>}, val \in {<<>>, <<"5">>},
        close \in Closers("}")}
    \ {<<"{">> \o Q(k1) \o <<":", "5">> \o sep \o Q(k2) \o <<":", "5">> \o close :
        sep \in Commas, close \in Closers("}")}
IncompletePairTexts ==
    IncompleteFirstPairs
    \cup UNION {IncompleteSecondPair(k1, k2) :
                    k1 \in {<<>>, <<"a">>}, k2 \in {<<>>, <<"a">>, <<"b">>}}
IncompleteNewKeyTexts ==
    IncompleteFirstPairs
    \cup UNION {IncompleteSecondPair(k[1], k[2]) :
                    k \in {kk \in {<<>>, <<"a">>} \X {<<>>, <<"a">>, <<"b">>} :
                              kk[1] # kk[2]}}

\* The texts in which a comma follows a complete element or pair and no
\* element or key follows the comma: alone, before a trailer, nested, and the
\* texts in a nest that puts them after "[5, "
TrailingCommaCores == TrailingCommaArrays \cup TrailingCommaObjects
TrailingCommaTexts ==
    {c[1] \o core \o c[2] : c \in Contexts(MaxDepth), core \in TrailingCommaCores}
    \cup {core \o t : core \in TrailingCommaCores, t \in Trailers}
    \cup {c[1] \o <<"[", "5", ",", " ">> \o d[1] \o core \o d[2] \o <<"]">> \o c[2] :
            c \in Contexts(MaxDepth - 1), d \in Contexts(MaxDepth - 1), core \in Cores}

-----------------------------------------------------------------------------
(* Properties of the structural productions, under Spec *)

\* C1: parsing an object whose second key equals its first key returns
\* DuplicateKeyError, for every key (the empty key included).
C1_DuplicateKeyIsReturned ==
    (ret.op \in {"parse", "parse_object"}
        /\ \E k \in Keys, w \in Spaces : stack = TwoKeyText(k, k, w))
    => IsError(DuplicateKeyError)

\* C2: a comma that no element (array) or key (object) follows fails the
\* parse with TrailingCommaError at the offset of that comma, whatever the
\* whitespace and the text after the comma.
C2_TrailingCommaAtTheComma ==
    /\ (ret.op = "parse_array" /\ stack \in TrailingCommaArrays)
       => (IsError(TrailingCommaError) /\ ret.cur = 2)
    /\ (ret.op = "parse_object" /\ stack \in TrailingCommaObjects)
       => (IsError(TrailingCommaError) /\ PeekAt(stack, ret.cur) = ",")

ValueStarts == DigitChars \cup {"-", "t", "f", "n", Quote, "[", "{"}

IsPrefixOf(p, s) == Len(p) <= Len(s) /\ SubSeq(s, 1, Len(p)) = p

\* C4: when the production of an element of an array or of a value of an
\* object fails, parse returns the kind and the offset of that failure.
C4_NestedErrorIsReturned ==
    \A n \in Nests :
        (/\ ret.op = "parse"
         /\ IsPrefixOf(n[1], stack)
         /\ PeekAt(stack, Len(n[1])) \in ValueStarts
         /\ ParseAny(stack, Len(n[1])).st = "err")
        => (/\ ret.st = "err"
            /\ ret.kind = ParseAny(stack, Len(n[1])).kind
            /\ ret.cur = ParseAny(stack, Len(n[1])).cur)

\* C5: parse returns a value only when nothing but whitespace is left after
\* the value.
C5_WholeInputConsumed ==
    (ret.op = "parse" /\ ret.st = "ok")
    => \A i \in (ret.cur + 1)..Len(stack) : IsWhitespace(stack[i])

\* C9: a DuplicateKeyError is at the start of the second occurrence of the
\* key (its opening quote or its first character), for keys of every length.
C9_DuplicateKeyOffset ==
    \A k \in Keys, w \in Spaces :
        (/\ ret.op \in {"parse", "parse_object"}
         /\ stack = TwoKeyText(k, k, w)
         /\ IsError(DuplicateKeyError))
        => ret.cur \in {SecondKeyStart(k, w), SecondKeyStart(k, w) + 1}

\* C10: parsing the rendering of a parsed value gives that value again.
C10_RoundTrip ==
    (ret.op = "parse" /\ rendered_from # NoValue)
    => (ret.st = "ok" /\ ret.val = rendered_from)

-----------------------------------------------------------------------------
(* Properties of the Number production, under SpecNumber *)

Signs == {<<>>, <<"-">>}
\* The digit runs over the digits of NumberChars
DigitRuns == SeqsUpTo({"0", "5"}, MaxNumberLen) \ {<<>>}

\* sign * (I + F / 10^len(F)) as a decimal
DecimalLiteralValue(sign, I, F) ==
    Norm((IF sign = <<>> THEN 1 ELSE -1) * (DecVal(I) * Pow10(Len(F)) + DecVal(F)),
         -Len(F))

\* C6: the literal [-]I.F has the value sign * (I + F / 10^len(F)), negative
\* exactly when the literal starts with '-'.
C6_FractionSignedAsLiteral ==
    ret.op = "parse_number"
    => \A sign \in Signs, I \in DigitRuns, F \in DigitRuns :
           stack = sign \o I \o <<".">> \o F
           => (ret.st = "ok" /\ ret.val = JNumber(DecimalLiteralValue(sign, I, F)))

\* A text has a mantissa: digits after the optional '-'
HasMantissa(s) == IsDigit(PeekAt(s, IF PeekAt(s, 0) = "-" THEN 1 ELSE 0))

\* The value of the mantissa of a text that has one
MantissaValue(s) ==
    IF PeekAt(s, 0) = "-" THEN -DecVal(SubSeq(s, 2, RunEnd(s, 1, DigitChars)))
    ELSE DecVal(SubSeq(s, 1, RunEnd(s, 0, DigitChars)))

Mantissas == {sign \o I : sign \in Signs, I \in DigitRuns}

\* What follows the '.' where the decimal stage fails and no 'e' comes next:
\* nothing, a '+' or a '.', or a '-' with digits or nothing after it
DecimalFailures ==
    {j \in SeqsUpTo(NumberChars, MaxNumberLen - 2) :
        \/ j = <<>>
        \/ j[1] \in {"+", "."}
        \/ j[1] = "-" /\ \A i \in 2..Len(j) : IsDigit(j[i])}
DecimalFailureTexts == {m \o <<".">> \o j : m \in Mantissas, j \in DecimalFailures}

\* What follows the 'e' where the exponent stage fails: no digit after the
\* optional sign
BadExponents ==
    {x \in SeqsUpTo(NumberChars, MaxNumberLen - 2) :
        ~IsDigit(PeekAt(x, IF PeekAt(x, 0) \in {"+", "-"} THEN 1 ELSE 0))}
ExponentFailureTexts ==
    {m \o dot \o <<e>> \o x :
        m \in Mantissas, dot \in {<<>>, <<".">>, <<".", "5">>, <<".", "-">>},
        e \in {"e", "E"}, x \in BadExponents}

\* C7 (as stated): without a mantissa the result is a SyntaxError; after a
\* mantissa a failure of the decimal stage or of the exponent stage is no
\* error.
C7_NoErrorAfterMantissa ==
    ret.op = "parse_number"
    => /\ ~HasMantissa(stack) => IsError(SyntaxError)
       /\ stack \in DecimalFailureTexts \cup ExponentFailureTexts => ret.st = "ok"

\* C7 (amended): without a mantissa the result is a SyntaxError; a failure of
\* the decimal stage is no error, the value is the mantissa; a failure of the
\* exponent stage is a SyntaxError.
C7_ExponentFailureIsSyntaxError ==
    ret.op = "parse_number"
    => /\ ~HasMantissa(stack) => IsError(SyntaxError)
       /\ stack \in DecimalFailureTexts
          => (ret.st = "ok" /\ ret.val = JNumber(Norm(MantissaValue(stack), 0)))
       /\ stack \in ExponentFailureTexts => IsError(SyntaxError)

\* parse_number has returned on 5.e: the decimal stage and the exponent
\* stage have both failed
C7_Witness ==
    /\ ret.op = "parse_number"
    /\ stack = <<"5", ".", "e">>
    /\ IsError(SyntaxError)
    /\ ret.cur = 3

-----------------------------------------------------------------------------
(* Properties of the String production, under SpecString *)

RECURSIVE BackslashesBefore(_, _)
\* The length of the run of backslashes that ends at index i of s, inside
\* the string body (which starts at index 2)
BackslashesBefore(s, i) ==
    IF i >= 2 /\ s[i] = Backslash THEN 1 + BackslashesBefore(s, i - 1) ELSE 0

\* The indices of the quotes not preceded by an odd run of backslashes
Terminators(s) ==
    {j \in 2..Len(s) : s[j] = Quote /\ BackslashesBefore(s, j - 1) % 2 = 0}

\* C8: after the opening quote the string ends at the first quote that no
\* odd run of backslashes precedes, and its value is the raw text before it.
C8_QuoteAfterEvenRunTerminates ==
    (ret.op = "parse_qstring" /\ PeekAt(stack, 0) = Quote)
    => IF Terminators(stack) = {} THEN ret.st = "err"
       ELSE /\ ret.st = "ok"
            /\ ret.val = JQString(SubSeq(stack, 2, Min(Terminators(stack)) - 1))
            /\ ret.cur = Min(Terminators(stack))

-----------------------------------------------------------------------------
(* Properties of apply, under SpecApply *)

RECURSIVE SameValue(_, _)
\* Two values are equal (PartialEq for JsonToken), compared kind first
SameValue(a, b) ==
    /\ a.t = b.t
    /\ CASE a.t \in {"Null", "None"} -> TRUE
         [] a.t = "Array" ->
               /\ Len(a.v) = Len(b.v)
               /\ \A i \in DOMAIN a.v : SameValue(a.v[i], b.v[i])
         [] a.t = "Object" ->
               /\ DOMAIN a.v = DOMAIN b.v
               /\ \A key \in DOMAIN a.v : SameValue(a.v[key], b.v[key])
         [] OTHER -> a.v = b.v

\* Two results of apply are equal
SameResult(r1, r2) ==
    /\ r1.st = r2.st
    /\ r1.err = r2.err
    /\ SameValue(r1.val, r2.val)

\* apply has returned
Applied == eval.result.st \in {"ok", "err"}

\* C11: apply is a fold from the left with no step skipped: for every way
\* of cutting the query in q1 and q2, apply(v, q1 ++ q2) fails if
\* apply(v, q1) fails, and is apply(apply(v, q1), q2) otherwise.
C11_LeftToRightFold ==
    Applied
    => \A n \in 0..Len(eval.query) :
          IF Apply(eval.self, SubSeq(eval.query, 1, n), eval.order).st = "err"
          THEN eval.result.st = "err"
          ELSE SameResult(eval.result,
                  Apply(Apply(eval.self, SubSeq(eval.query, 1, n), eval.order).val,
                        SubSeq(eval.query, n + 1, Len(eval.query)), eval.order))


\* C12: Length on an Array is the Number of its elements, on a String the
\* Number of its characters, and a type mismatch on every other value.
C12_LengthOfArrayAndString ==
    (Applied /\ eval.query = <<LengthProp>>)
    => CASE eval.self.t \in {"Array", "QString"} ->
               /\ eval.result.st = "ok"
               /\ SameValue(eval.result.val, Num(Len(eval.self.v)))
         [] OTHER ->
               /\ eval.result.st = "err"
               /\ eval.result.err.kind = TypeMismatch


\* The results of a query on the elements of an array, one by one
ElementResults(array, q, order) ==
    [i \in 1..Len(array) |-> Apply(array[i], q, order)]

\* C13: Map on an Array is the Array of the results of the sub-query in the
\* order of the elements when the sub-query succeeds on every one of them;
\* when it fails on an element the call fails with an error of such an
\* element and returns no array; on a value that is no Array it is a type
\* mismatch.
C13_MapAllOrNothing ==
    (Applied /\ Len(eval.query) = 1 /\ eval.query[1].k = "Map")
    => LET results == ElementResults(eval.self.v, eval.query[1].query, eval.order) IN
       CASE eval.self.t # "Array" ->
               /\ eval.result.st = "err"
               /\ eval.result.err.kind = TypeMismatch
         [] eval.self.t = "Array" /\ \A i \in DOMAIN results : results[i].st = "ok" ->
               /\ eval.result.st = "ok"
               /\ SameValue(eval.result.val,
                            JArray([i \in DOMAIN results |-> results[i].val]))
         [] OTHER ->
               \E i \in DOMAIN results : results[i].st = "err" /\ eval.result = results[i]

\* `.map(.a)` has returned the array of 1, 2, 3 on three objects with the
\* key a
C13_Witness ==
    /\ Applied
    /\ eval.query = <<MapProp(<<Dot(NameA)>>)>>
    /\ eval.self.t = "Array"
    /\ Len(eval.self.v) = 3
    /\ eval.result.st = "ok"
    /\ SameValue(eval.result.val, JArray(<<Num(1), Num(2), Num(3)>>))


\* The name an error gives to the kind of a value
Discriminant(v) ==
    CASE v.t = "Null" -> "Null"
      [] v.t = "Boolean" -> "Boolean"
      [] v.t = "Number" -> "Number"
      [] v.t = "QString" -> "String"
      [] v.t = "Array" -> "Array"
      [] v.t = "Object" -> "Object"

\* C14: Keys on an Object of n entries is an Array of n Strings, the keys of
\* the object, each once; Values is the Array of the n values, each at the
\* place of its key in one listing of the keys; on a value that is no
\* Object either of them is a type mismatch that names the kind of the
\* value.
C14_KeysAndValues ==
    (Applied /\ eval.query \in {<<KeysProp>>, <<ValuesProp>>})
    => IF eval.self.t = "Object"
       THEN /\ eval.result.st = "ok"
            /\ eval.result.val.t = "Array"
            /\ Len(eval.result.val.v) = Cardinality(DOMAIN eval.self.v)
            /\ \E ks \in Orders(DOMAIN eval.self.v) :
                  \A i \in DOMAIN ks :
                     SameValue(eval.result.val.v[i],
                               IF eval.query = <<KeysProp>> THEN JQString(ks[i])
                               ELSE eval.self.v[ks[i]])
       ELSE /\ eval.result.st = "err"
            /\ eval.result.err.kind = TypeMismatch
            /\ eval.result.err.found = Discriminant(eval.self)

\* `.keys()` has returned the two keys of an object, b before a
C14_Witness ==
    /\ Applied
    /\ eval.query = <<KeysProp>>
    /\ eval.self.t = "Object"
    /\ eval.result.st = "ok"
    /\ SameValue(eval.result.val, JArray(<<JQString(NameB), JQString(NameA)>>))


\* The property of the other syntax with the same name
Twin(prop) == IF prop.k = "Dot" THEN Bracket(prop.name) ELSE Dot(prop.name)

-----------------------------------------------------------------------------
(* Properties of the query parser, under SpecQuery *)

\* JsonQuery::new has returned
QueryReturned == ret.op = "query_new"

\* The texts `[n]` and `[-n]`: a digit run in brackets, with or without a
\* '-' before it
IsIndexText(s) ==
    /\ Len(s) >= 3
    /\ s[1] = "[" /\ s[Len(s)] = "]"
    /\ LET from == IF s[2] = "-" THEN 3 ELSE 2 IN
       /\ from < Len(s)
       /\ \A i \in from..(Len(s) - 1) : s[i] \in DigitChars

\* The digits of the index of a text `[n]` or `[-n]`, without leading zeros
WrittenDigits(s) ==
    LET sig == StripZeros(SubSeq(s, IF s[2] = "-" THEN 3 ELSE 2, Len(s) - 1)) IN
    IF sig = <<>> THEN <<"0">> ELSE sig

\* C16 (the query half): a query `[n]` or `[-n]` parses to the one property
\* Index with that integer, of the sign and the digits that are written.
C16_IndexCarriesTheInteger ==
    (QueryReturned /\ IsIndexText(stack))
    => /\ ret.st = "ok"
       /\ Len(query) = 1
       /\ query[1].k = "Index"
       /\ IF stack[2] = "-" THEN query[1].index <= 0 ELSE query[1].index >= 0
       /\ query[1].index # I32Min
       /\ IntDigits(Abs(query[1].index)) = WrittenDigits(stack)


\* C17: the text made of the source forms of a sequence of properties, one
\* after the other, parses to that sequence, every Map with its own
\* sub-sequence.
C17_SourceFormsParseBack ==
    QueryReturned
    => \A q \in QuerySequences :
          stack = SourceForms(q) => (ret.st = "ok" /\ query = q)


\* The text s begins with the text p
StartsWith(s, p) == Len(p) <= Len(s) /\ SubSeq(s, 1, Len(p)) = p

\* C18: a text `.name`, the name of characters other than '.', '[' and ')'
\* and no fixed form, parses to the one property Dot(name); followed by a
\* '.' or a '[' the name stops there and Dot(name) is the first property.
\* A name that only begins a fixed form (k, map) is a Dot all the same.
C18_DotNameIsADot ==
    QueryReturned
    => \A name \in QueryNames :
          /\ stack = <<".">> \o name => (ret.st = "ok" /\ query = <<Dot(name)>>)
          /\ (StartsWith(stack, <<".">> \o name)
              /\ PeekAt(stack, Len(name) + 1) \in {".", "["})
             => (query # <<>> /\ query[1] = Dot(name))


\* The text of a map of the query q, followed by the text of the query t
MapText(q, t) == MapOpen \o SourceForms(q) \o <<")">> \o SourceForms(t)

\* C19: `.map(<sub>)` ends at the ')' that balances its '(': with the fixed
\* forms and maps nested inside the sub-query, the text parses to the Map of
\* the properties of the sub-query, and the properties after the balancing
\* ')' follow it in the outer query.
C19_MapClosesAtItsParenthesis ==
    QueryReturned
    => \A q \in NestedQueries(MaxMapDepth - 1), t \in AfterMap :
          stack = MapText(q, t) => (ret.st = "ok" /\ query = <<MapProp(q)>> \o t)

\* `.map(.map(.keys()).keys())[0]` has parsed to a map in a map, and the
\* index after it
C19_Witness ==
    /\ QueryReturned
    /\ ret.st = "ok"
    /\ stack = MapText(<<MapProp(<<KeysProp>>), KeysProp>>, <<Index(0)>>)
    /\ query = <<MapProp(<<MapProp(<<KeysProp>>), KeysProp>>), Index(0)>>


\* C20: the parsing of a query ends with success at the end of the text, or
\* with a SyntaxError whose offset is that of a character of the text: it
\* never exceeds the length of the text.
C20_ErrorOffsetInTheText ==
    (QueryReturned /\ ret.st = "err")
    => /\ ret.kind = SyntaxError
       /\ ret.cur <= Len(stack)


-----------------------------------------------------------------------------
(* Properties of the Lexer, under SpecLexer *)

\* The text s has the whole of the text ys at the offset c
HasAt(s, c, ys) ==
    /\ c + Len(ys) <= Len(s)
    /\ SubSeq(s, c + 1, c + Len(ys)) = ys

\* C21: consume_string(ys) consumes and returns ys if and only if every
\* character of ys is in the text, in sequence, at the cursor; a text that
\* ends before ys is complete does not match.
C21_LiteralMatchesWhole ==
    ret.op = "consume_string"
    => /\ ret.st = "some" <=> HasAt(stack, ret.from, ret.arg)
       /\ ret.st = "some" => cursor = ret.from + Len(ret.arg)
       /\ ret.st = "none" => cursor = ret.from


\* Where the digits of a call of consume_uint or consume_int are required:
\* at the cursor, or after the '-' at the cursor that consume_int takes
DigitsFrom ==
    IF ret.op = "consume_int" /\ PeekAt(stack, ret.from) = "-"
    THEN ret.from + 1 ELSE ret.from

\* C22: consume_uint and consume_int return nothing and leave the cursor
\* where it was when no digit is at the place where the digits are required,
\* also when a '-' is there and no digit follows it.
C22_NoDigitNoMove ==
    (/\ ret.op \in {"consume_uint", "consume_int"}
     /\ ret.from <= Len(stack)
     /\ PeekAt(stack, DigitsFrom) \notin DigitChars)
    => (ret.st = "none" /\ cursor = ret.from)

\* C23: consume_byte(x) moves the cursor by one and returns x if and only if
\* x is the character at the cursor; on another character and at the end of
\* the text it returns nothing, and the cursor and the text stay as they are.
C23_ByteOnlyWhenThere ==
    [][ret'.op = "consume_byte"
       => /\ stack' = stack
          /\ IF PeekAt(stack, cursor) = ret'.arg
             THEN ret'.st = "some" /\ ret'.val = ret'.arg /\ cursor' = cursor + 1
             ELSE ret'.st = "none" /\ cursor' = cursor]_vars

\* consume_byte has taken a character after the start of a text
C23_Witness ==
    /\ ret.op = "consume_byte"
    /\ ret.st = "some"
    /\ ret.from > 0
    /\ stack[ret.from + 1] = ret.arg
    /\ cursor = ret.from + 1

\* The line breaks among the first o characters of a text
LineBreaks(s, o) == Cardinality({i \in 1..o : s[i] = "\n"})

\* C24: the Position of an offset o, from 0 to the length of the text, has
\* the row 1 + (the line breaks among the first o characters) and a column
\* counted from 1: row >= 1 and column >= 1, also at offset 0 and at the
\* first character of a later line.
C24_PositionFromOne ==
    ret.op = "position"
    => /\ ret.row = 1 + LineBreaks(stack, ret.arg)
       /\ ret.row >= 1
       /\ ret.col >= 1


-----------------------------------------------------------------------------
(* Properties of the JsonParser, under Spec *)

\* C26: parse_array returns an Array only for '[', whitespace, the elements
\* with their commas, whitespace, ']': an empty Array is returned only when
\* nothing but whitespace stands between the brackets; a first element that
\* fails after consuming characters makes the array an error.
C26_EmptyArrayIsEmptyBrackets ==
    (/\ ret.op = "parse_array"
     /\ ret.st = "ok"
     /\ ret.val.t = "Array"
     /\ ret.val.v = <<>>)
    => /\ stack[ret.from + 1] = "["
       /\ stack[ret.cur] = "]"
       /\ \A i \in (ret.from + 2)..(ret.cur - 1) : stack[i] \in WhitespaceChars


-----------------------------------------------------------------------------
(* The alternation of PropertyParser::parse_any, under SpecQuery *)

\* The name parse_dot_prop reads at the start of a text that begins with '.'
NameAtStart == ConsumeWhile(stack, 1, Chars(stack) \ {".", "[", ")"}).val

\* C27: an alternative of parse_any that fails at a '.' leaves the cursor
\* where it was, so that the next one is tried on the same text: when the
\* text begins with `.map(` and the attempt at a map fails, parse_dot_prop
\* is tried at the '.' of `.map(` and the first property is the Dot of the
\* name that begins with `map(`.
C27_FailedMapLeavesTheCursor ==
    (/\ QueryReturned
     /\ ret.st # "panic"
     /\ StartsWith(stack, MapOpen)
     /\ ~(query # <<>> /\ query[1].k = "Map"))
    => (query # <<>> /\ query[1] = Dot(NameAtStart))


\* C28: after any sequence of consume_byte, consume_string, consume_while,
\* consume_uint and consume_int from cursor 0 the cursor is at most the
\* length of the text, so the slice stack[cursor..] of consume_while is in
\* range and no call panics on it.
C28_CursorInTheText ==
    /\ cursor <= Len(stack)
    /\ ret.op = "consume_while" => ret.st # "panic"


\* C29: parse is total: on every text, the empty one, one whose first
\* character starts no value and an object that repeats the empty key
\* included, it returns a value or a ParseError and never panics on one of
\* its unsigned subtractions.
C29_ParseIsTotal ==
    ret.op \in {"parse", "parse_any", "parse_object"} => ret.st \in {"ok", "err"}


\* The digit run a call of consume_int has read, without its leading zeros
WrittenRun ==
    LET sig == StripZeros(ConsumeWhile(stack, DigitsFrom, DigitChars).val) IN
    IF sig = <<>> THEN <<"0">> ELSE sig

\* C30: what consume_int returns is the value of the optional '-' and the
\* digit run: of the sign that is written and of the digits that are
\* written.  A run whose value does not fit an i32 gives nothing or its
\* exact value, never a value of the other sign, and the call never
\* overflows.
C30_IntIsTheWrittenValue ==
    (ret.op = "consume_int" /\ ret.from <= Len(stack))
    => /\ ret.st # "panic"
       /\ ret.st = "some"
          => /\ IF PeekAt(stack, ret.from) = "-" THEN ret.val <= 0 ELSE ret.val >= 0
             /\ IF ret.val = I32Min
                THEN WrittenRun = <<"2", "1", "4", "7", "4", "8", "3", "6", "4", "8">>
                ELSE IntDigits(Abs(ret.val)) = WrittenRun

-----------------------------------------------------------------------------
(* Properties of the command line, under SpecCli *)

\* The arguments from the next one on begin with the spelling s
Given(s) ==
    /\ cli.pc = "loop"
    /\ cli.next + Len(s.args) <= Len(cli.argv)
    /\ SubSeq(cli.argv, cli.next + 1, cli.next + Len(s.args)) = s.args

\* The main loop has taken the arguments of s and goes on; the flags of s
\* are added, in their order, and the option of s has its value, the other
\* options what they had
Recorded(s) ==
    /\ cli'.pc = "loop"
    /\ cli'.next = cli.next + Len(s.args)
    /\ cli'.flags = cli.flags \o s.flags
    /\ cli'.options = IF s.name = "" THEN cli.options
                      ELSE {o \in cli.options : o[1] # s.name} \cup {<<s.name, s.value>>}

\* C25: parse_and_populate records the flags and the option values of the
\* four spellings (a group of short flags that may end in a short option with
\* its value in the rest of the argument or else in the next argument, a
\* long option before its value, a long option with `=value`), and nothing
\* else: it starts from the defaults of option1 and option5, the options
\* without a default absent, and an argument changes only its own option.
C25_SpellingsAreRecorded ==
    [][/\ cli.pc = "call"
          => /\ cli'.flags = <<>>
             /\ cli'.options = {<<"option1", <<"d", "e", "f", "a", "u", "l", "t">>>>,
                                <<"option5", <<"d", "e", "f", "a", "u", "l", "t">>>>}
       /\ \A s \in Spellings : Given(s) => Recorded(s)]_vars

\* The command line of success_cli has been read to its end: three flags,
\* four options with the value `value`, and option5 with its default
C25_Witness ==
    /\ cli.pc = "ok"
    /\ cli.argv = SuccessCli
    /\ cli.next = Len(SuccessCli)
    /\ cli.file = <<>>
    /\ cli.flags = <<<<"-", "a">>, <<"-", "v">>, <<"-", "h">>>>
    /\ cli.options = {<<"option1", <<"v", "a", "l", "u", "e">>>>, <<"option2", <<"v", "a", "l", "u", "e">>>>, <<"option3", <<"v", "a", "l", "u", "e">>>>,
                      <<"option4", <<"v", "a", "l", "u", "e">>>>, <<"option5", <<"d", "e", "f", "a", "u", "l", "t">>>>}
====
